---------------------------- MODULE Spec2Model ----------------------------
(***************************************************************************)
(* The after-hours fade bot: one run_session (bot/main.py) as a state      *)
(* machine.  ANCHOR -> MONITOR_AND_ENTER -> MANAGE -> EXIT -> finalization *)
(* against a wall clock, with the session state dictionary, the persisted  *)
(* documents and the broker as state.                                      *)
(*                                                                         *)
(* Conventions                                                             *)
(*  - The clock counts whole minutes since Monday 00:00 of the week the    *)
(*    session starts in.  Sleeps shorter than a minute (the 10 s and 5 s   *)
(*    settle delays) do not move it.                                       *)
(*  - time.sleep(d) guarantees only a lower bound.  The clock is observed  *)
(*    at the instants of DayInstants (every boundary the code compares     *)
(*    against, and instants between them); a sleep returns at the first    *)
(*    such instant at or after now + d.                                    *)
(*  - Fractions of config.py are kept in basis points (1/10000), prices in *)
(*    whole dollars, and a P&L fraction (p - e)/e is compared by cross     *)
(*    multiplication, so no rounding enters a comparison.                  *)
(*  - A price that is absent (None, missing key) or zero is 0.             *)
(***************************************************************************)
EXTENDS Integers, Sequences, FiniteSets, TLC

\* ------------------------------------------------------------------------
\* config.py
\* ------------------------------------------------------------------------
BOT_START_HOUR == 15
BOT_START_MINUTE == 55
ANCHOR_HOUR == 16
ANCHOR_MINUTE == 0
MONITOR_START_HOUR == 16
MONITOR_START_MINUTE == 5
ENTRY_CUTOFF_HOUR == 20
ENTRY_CUTOFF_MINUTE == 0
LATE_WINDOW_HOUR == 18
EXIT_HOUR == 9
EXIT_MINUTE == 30
EXIT_WINDOW_MINUTES == 10
MONITOR_INTERVAL_SEC == 60
OVERNIGHT_INTERVAL_SEC == 300

\* fractions, in basis points
EXTREME_MOVE_PCT == 700
HARD_STOP_PCT == 500
PROFIT_CEILING_PCT == 250
PROFIT_EXIT_MAX_SPREAD_PCT == 40
PROFIT_EXIT_MIN_VOLUME == 100
RISK_PER_TRADE_PCT == 200
MAX_CONCURRENT_POSITIONS == 3
ASSUMED_FRICTION_PCT == 50
BP == 100 * 100

\* log_trade keeps the last 500 records
HISTORY_CAP == 500

\* ------------------------------------------------------------------------
\* Bounds of the model
\* ------------------------------------------------------------------------
\* the watchlist, cut to its first symbols
WATCHLIST == <<"AAPL", "MSFT", "AMZN", "NVDA">>
Symbols == {WATCHLIST[i] : i \in 1..Len(WATCHLIST)}

\* at most MaxFaults calls fail in one session (a raised exception, or a
\* close the broker refuses)
MaxFaults == 1
\* at most MaxQuotes overnight snapshots carry a price for a held symbol; the
\* others lack it ("No price for symbol -- skipping manage")
MaxQuotes == 1

\* at most MaxUpdates calls of update_excursions on one position when the
\* function is exercised on its own
MaxUpdates == 3

\* at most MaxLedgerCalls calls of update_performance_after_session when the
\* function is exercised on its own
MaxLedgerCalls == 2

\* at most MaxScans iterations of the MONITOR loop when a live and a dry-run
\* session are run side by side
MaxScans == 2

\* weekday the process is started on (0 = Monday .. 6 = Sunday), at 15:55
StartDays == {3, 4, 5}
\* minutes of the day at which the clock is observed
DayInstants == {565, 570, 955, 960, 965, 1080, 1200, 1205}

\* price snapshots handed out by the feed (0: no price); one carries a
\* price that is not positive
AnchorSnapshots ==
    {[s \in Symbols |-> IF s \in missing THEN 0 ELSE 100] :
        missing \in {{}, {WATCHLIST[1]}, Symbols}}
    \cup {[s \in Symbols |-> IF s = WATCHLIST[1] THEN -1 ELSE 100]}
\* after-hours quotes of a scan: the second symbol of the watchlist may spike,
\* the others may dip
MonitorQuotes(symbol) ==
    IF symbol = WATCHLIST[2] THEN {0, 100, 108} ELSE {0, 92, 100}
ManagePrices == {0, 87, 114}
ExitSnapshots ==
    {[s \in Symbols |-> IF s \in missing THEN 0 ELSE 114] :
        missing \in {{}, {WATCHLIST[1]}}}
\* liquidity of a snapshot: <<spread_pct in bp or -1 for None, recent_volume or -1>>
Liquidity == {<<-1, -1>>, <<30, 200>>, <<60, 200>>, <<30, 50>>}
\* account values returned by the broker
Equities == {100000}
Cashes == {30000}

\* ------------------------------------------------------------------------
\* Clock helpers  (main.py 60-146)
\* ------------------------------------------------------------------------
MinPerDay == 24 * 60

DayOf(t) == t \div MinPerDay
HourOf(t) == (t % MinPerDay) \div 60
MinuteOf(t) == t % 60
WeekdayOf(t) == DayOf(t) % 7
AtTime(t, hour, minute) == DayOf(t) * MinPerDay + hour * 60 + minute

time_reached(t, hour, minute) ==
    (HourOf(t) > hour) \/ (HourOf(t) = hour /\ MinuteOf(t) >= minute)

is_past_entry_cutoff(t) == time_reached(t, ENTRY_CUTOFF_HOUR, ENTRY_CUTOFF_MINUTE)

is_weekday(t) == WeekdayOf(t) < 5

\* faulty variant of is_friday: no day is a Friday
NeverFriday(t) == FALSE

is_friday(t) == WeekdayOf(t) = 4

\* faulty variant of is_exit_time: the exit window is never seen
never_exit_time(t) == FALSE

is_exit_time(t) ==
    IF HourOf(t) >= BOT_START_HOUR THEN FALSE
    ELSE IF ~is_weekday(t) THEN FALSE
    ELSE /\ AtTime(t, EXIT_HOUR, EXIT_MINUTE) <= t
         /\ t <= AtTime(t, EXIT_HOUR, EXIT_MINUTE + EXIT_WINDOW_MINUTES)

is_session_over(t) ==
    IF HourOf(t) >= BOT_START_HOUR THEN FALSE
    ELSE IF ~is_weekday(t) THEN FALSE
    ELSE LET end_minute == EXIT_MINUTE + EXIT_WINDOW_MINUTES
         IN  time_reached(t, EXIT_HOUR + (end_minute \div 60), end_minute % 60)

RECURSIVE SkipWeekend(_)
SkipWeekend(target) ==
    IF WeekdayOf(target) >= 5 THEN SkipWeekend(target + MinPerDay) ELSE target

\* faulty variant of _next_weekday_target: Saturdays and Sundays are not skipped
next_target_any_day(t, hour, minute) ==
    LET today == AtTime(t, hour, minute)
    IN  IF today <= t THEN today + MinPerDay ELSE today

_next_weekday_target(t, hour, minute) ==
    LET today == AtTime(t, hour, minute)
        target == IF today <= t THEN today + MinPerDay ELSE today
    IN  SkipWeekend(target)

\* first observed instant at or after t
WakeAt(t) ==
    LET m == t % MinPerDay
        later == {x \in DayInstants : x >= m}
        first(S) == CHOOSE x \in S : \A y \in S : x <= y
    IN  IF later # {} THEN DayOf(t) * MinPerDay + first(later)
        ELSE (DayOf(t) + 1) * MinPerDay + first(DayInstants)

\* time.sleep(seconds) entered at t
Sleep(t, seconds) == WakeAt(t + (seconds \div 60))

sleep_until(t, hour, minute) ==
    IF AtTime(t, hour, minute) > t THEN WakeAt(AtTime(t, hour, minute)) ELSE t

\* faulty variant of sleep_until_next_weekday: the weekend is not skipped
sleep_until_next_day(t, hour, minute) ==
    LET today == AtTime(t, hour, minute)
        target == IF today <= t THEN today + MinPerDay ELSE today
    IN  IF target > t THEN WakeAt(target) ELSE t

sleep_until_next_weekday(t, hour, minute) ==
    LET target == _next_weekday_target(t, hour, minute)
    IN  IF target > t THEN WakeAt(target) ELSE t

_get_trigger_window(t) == IF HourOf(t) < LATE_WINDOW_HOUR THEN "4-6" ELSE "6-8"

\* ------------------------------------------------------------------------
\* strategies.py -- pure decision functions
\* ------------------------------------------------------------------------
\* (current - anchor) / anchor compared with a fraction given in basis points
\* faulty variant of MoveAtLeast: a move of exactly the threshold does not count
MoveAbove(anchor, current, bp) == (current - anchor) * BP > bp * anchor

MoveAtLeast(anchor, current, bp) == (current - anchor) * BP >= bp * anchor
MoveAtMost(anchor, current, bp) == (current - anchor) * BP <= bp * anchor

\* abs(move_pct) < EXTREME_MOVE_PCT   (main.py 260-263)
NotExtreme(anchor, current) ==
    /\ ~MoveAtLeast(anchor, current, EXTREME_MOVE_PCT)
    /\ ~MoveAtMost(anchor, current, -EXTREME_MOVE_PCT)

evaluate_entry_signal(anchor_close, current_price, friday, active_positions_count) ==
    IF anchor_close <= 0 \/ current_price <= 0
    THEN [enter |-> FALSE, direction |-> "none", reason |-> "invalid price data"]
    ELSE IF active_positions_count >= MAX_CONCURRENT_POSITIONS
    THEN [enter |-> FALSE, direction |-> "none", reason |-> "max concurrent positions reached"]
    ELSE IF friday
    THEN IF MoveAtMost(anchor_close, current_price, -EXTREME_MOVE_PCT)
         THEN [enter |-> TRUE, direction |-> "long", reason |-> "Friday dip fade"]
         ELSE [enter |-> FALSE, direction |-> "none", reason |-> "Friday: below threshold"]
    ELSE IF MoveAtLeast(anchor_close, current_price, EXTREME_MOVE_PCT)
         THEN [enter |-> TRUE, direction |-> "short", reason |-> "fade up"]
         ELSE IF MoveAtMost(anchor_close, current_price, -EXTREME_MOVE_PCT)
         THEN [enter |-> TRUE, direction |-> "long", reason |-> "fade down"]
         ELSE [enter |-> FALSE, direction |-> "none", reason |-> "within band"]

\* faulty variant of Min: the second constraint is ignored
KeepFirst(a, b) == a

Min(a, b) == IF a <= b THEN a ELSE b
Max(a, b) == IF a >= b THEN a ELSE b

\* faulty variant of compute_position_size: the quotients are rounded up
size_rounded_up(equity, entry_price, direction, available_cash, slots_remaining) ==
    IF entry_price <= 0 \/ equity <= 0 \/ slots_remaining <= 0 THEN 0
    ELSE LET risk == equity * RISK_PER_TRADE_PCT
             loss == entry_price * HARD_STOP_PCT
             slot == slots_remaining * entry_price
             qty_risk == (risk + loss - 1) \div loss
         IN  IF direction = "long"
             THEN IF available_cash <= 0 THEN 0
                  ELSE Min(qty_risk, (available_cash + slot - 1) \div slot)
             ELSE qty_risk

\* faulty variant of compute_position_size: the risk budget is multiplied by
\* the price instead of divided by it
size_price_multiplied(equity, entry_price, direction, available_cash, slots_remaining) ==
    IF entry_price <= 0 \/ equity <= 0 \/ slots_remaining <= 0 THEN 0
    ELSE LET qty_risk == (((equity * RISK_PER_TRADE_PCT) \div HARD_STOP_PCT) * entry_price)
                            \div BP
         IN  IF direction = "long"
             THEN IF available_cash <= 0 THEN 0
                  ELSE Min(qty_risk, available_cash \div (slots_remaining * entry_price))
             ELSE qty_risk

\* int(x) of a non-negative quotient is its floor; floor(min(a, b)) is the
\* smaller of the two floors
compute_position_size(equity, entry_price, direction, available_cash, slots_remaining) ==
    IF entry_price <= 0 \/ equity <= 0 \/ slots_remaining <= 0 THEN 0
    ELSE LET qty_risk == (equity * RISK_PER_TRADE_PCT) \div (entry_price * HARD_STOP_PCT)
         IN  IF direction = "long"
             THEN IF available_cash <= 0 THEN 0
                  ELSE Max(Min(qty_risk,
                               available_cash \div (slots_remaining * entry_price)), 0)
             ELSE Max(qty_risk, 0)

\* numerator of the direction-normalized P&L; the fraction is PnlNum / entry_price
PnlNum(entry_price, current_price, direction) ==
    IF direction = "long" THEN current_price - entry_price
    ELSE entry_price - current_price

\* faulty variant of check_hard_stop: the stop never fires
stop_never_hit(entry_price, current_price, direction) ==
    [hit |-> FALSE, pnl |-> PnlNum(entry_price, current_price, direction), reason |-> "P&L"]

check_hard_stop(entry_price, current_price, direction) ==
    IF entry_price <= 0
    THEN [hit |-> FALSE, pnl |-> 0, reason |-> "no entry price"]
    ELSE LET pnl == PnlNum(entry_price, current_price, direction)
         IN  IF pnl * BP <= -HARD_STOP_PCT * entry_price
             THEN [hit |-> TRUE, pnl |-> pnl, reason |-> "HARD STOP"]
             ELSE [hit |-> FALSE, pnl |-> pnl, reason |-> "P&L"]

\* faulty variant of check_profit_ceiling: spread and volume are not looked at
ceiling_on_pnl_alone(entry_price, current_price, direction, spread_pct, recent_volume) ==
    IF entry_price <= 0
    THEN [hit |-> FALSE, pnl |-> 0, reason |-> "no entry price"]
    ELSE LET pnl == PnlNum(entry_price, current_price, direction)
         IN  IF pnl * BP < PROFIT_CEILING_PCT * entry_price
             THEN [hit |-> FALSE, pnl |-> pnl, reason |-> "below ceiling"]
             ELSE [hit |-> TRUE, pnl |-> pnl, reason |-> "PROFIT CEILING"]

\* spread_pct in basis points, recent_volume in shares; -1 stands for None
check_profit_ceiling(entry_price, current_price, direction, spread_pct, recent_volume) ==
    IF entry_price <= 0
    THEN [hit |-> FALSE, pnl |-> 0, reason |-> "no entry price"]
    ELSE LET pnl == PnlNum(entry_price, current_price, direction)
         IN  IF pnl * BP < PROFIT_CEILING_PCT * entry_price
             THEN [hit |-> FALSE, pnl |-> pnl, reason |-> "below ceiling"]
             ELSE IF spread_pct # -1 /\ spread_pct > PROFIT_EXIT_MAX_SPREAD_PCT
             THEN [hit |-> FALSE, pnl |-> pnl, reason |-> "TP reached but spread"]
             ELSE IF recent_volume # -1 /\ recent_volume < PROFIT_EXIT_MIN_VOLUME
             THEN [hit |-> FALSE, pnl |-> pnl, reason |-> "TP reached but volume"]
             ELSE [hit |-> TRUE, pnl |-> pnl, reason |-> "PROFIT CEILING"]

\* faulty variant of evaluate_overnight_management: the stop is not consulted
ceiling_only(entry_price, current_price, direction, spread_pct, recent_volume) ==
    check_profit_ceiling(entry_price, current_price, direction, spread_pct, recent_volume)

evaluate_overnight_management(entry_price, current_price, direction, spread_pct, recent_volume) ==
    LET stop == check_hard_stop(entry_price, current_price, direction)
        tp == check_profit_ceiling(entry_price, current_price, direction,
                                   spread_pct, recent_volume)
    IN  IF stop.hit THEN stop ELSE tp

\* faulty variant of evaluate_morning_exit: nothing is decided without a price
morning_exit_needs_price(entry_price, current_price, direction) ==
    IF entry_price <= 0 \/ current_price <= 0
    THEN [action |-> "none", pnl |-> 0, reason |-> "no position"]
    ELSE [action |-> "close",
          pnl |-> PnlNum(entry_price, current_price, direction),
          reason |-> "session end exit"]

evaluate_morning_exit(entry_price, current_price, direction) ==
    IF entry_price <= 0
    THEN [action |-> "none", pnl |-> 0, reason |-> "no position"]
    ELSE [action |-> "close",
          pnl |-> PnlNum(entry_price, current_price, direction),
          reason |-> "session end exit"]

\* ------------------------------------------------------------------------
\* State
\* ------------------------------------------------------------------------
VARIABLES
    pc,             \* where run_session stands
    clock,          \* now(), minutes since Monday 00:00
    dry_run,        \* the --dry-run flag
    session_start,  \* clock at which run_session started (state["session_start"])
    session_active, \* state["session_active"]
    anchor_closes,  \* state["anchor_closes"]: symbol -> price, 0 where the key is absent
    positions,      \* state["positions"]: the dict as its items in insertion order
    trade_history,  \* state["trade_history"]
    saved,          \* the session-state document on disk (ah_bot_state.json)
    metrics,        \* the metrics document on disk (trade_metrics.json)
    orders,         \* broker side: per symbol, the order submissions it accepted
    last_order,     \* the latest broker order call and its outcome
    loc,            \* local variables of the running phase function
    events,         \* phase calls and returns of run_session, in order
    raised,         \* the exception that left a phase, if any
    perf_calls,     \* calls of update_performance_after_session
    faults,         \* failed calls so far
    quotes,         \* overnight snapshots that carried a price so far
    call,           \* a function called on its own: arguments and result
    performance     \* the running totals on disk (performance.json)

vars == <<pc, clock, dry_run, session_start, session_active, anchor_closes,
          positions, trade_history, saved, metrics, orders, last_order, loc,
          events, raised, perf_calls, faults, quotes, call, performance>>

\* a dict keyed by symbol, kept as the sequence of its items
Keys(d) == [i \in 1..Len(d) |-> d[i].symbol]
KeySet(d) == {d[i].symbol : i \in 1..Len(d)}
HasKey(d, symbol) == symbol \in KeySet(d)
Item(d, symbol) == d[CHOOSE i \in 1..Len(d) : d[i].symbol = symbol]
\* faulty variant of DelKey: the item stays
KeepKey(d, symbol) == d
DelKey(d, symbol) == SelectSeq(d, LAMBDA r : r.symbol # symbol)
SetItem(d, symbol, r) == [i \in 1..Len(d) |-> IF d[i].symbol = symbol THEN r ELSE d[i]]

\* list(anchor_closes.keys()): the keys were inserted in watchlist order
AnchoredKeys(ac) == SelectSeq(WATCHLIST, LAMBDA s : ac[s] > 0)

Doc(active, ac, pos, hist) ==
    [session_active |-> active, anchor_closes |-> ac, positions |-> pos,
     trade_history |-> hist]

NoLocals ==
    [symbols |-> <<>>, i |-> 0, active_count |-> 0, slots_remaining |-> 0,
     available_cash |-> 0, equity |-> 0, friday |-> FALSE, window |-> "-",
     seen_extreme |-> {}, prices |-> <<>>, caught |-> FALSE]

NoOrder == [op |-> "none", symbol |-> "-", purpose |-> "-", result |-> "-"]
NotRaised == [kind |-> "none", at |-> "-"]
\* no function of strategies.py is being called on its own
NoCall == [fn |-> "none", args |-> <<>>, returned |-> FALSE, result |-> "pending"]
Error(label) == [kind |-> "error", at |-> label]

\* faulty variant of save_trade_metrics: nothing is written
save_nothing(ms, m) == ms

\* state_manager.save_trade_metrics: the entry is appended to the metrics file
save_trade_metrics(ms, m) == Append(ms, m)

\* faulty variant of log_trade: EXIT records are not appended
log_entries_only(hist, t, action, ticker, qty, price, reason, direction) ==
    IF action = "EXIT" THEN hist
    ELSE Append(hist, [timestamp |-> t, action |-> action, ticker |-> ticker,
                       qty |-> qty, price |-> price, direction |-> direction,
                       reason |-> reason])

\* state_manager.log_trade
log_trade(hist, t, action, ticker, qty, price, reason, direction) ==
    LET entry == [timestamp |-> t, action |-> action, ticker |-> ticker, qty |-> qty,
                  price |-> price, direction |-> direction, reason |-> reason]
        h == Append(hist, entry)
    IN  IF Len(h) > HISTORY_CAP THEN SubSeq(h, Len(h) - HISTORY_CAP + 1, Len(h)) ELSE h

\* faulty variant of update_excursions: both fields follow the latest P&L
overwrite_excursions(position_info, current_pnl) ==
    [position_info EXCEPT !.max_favorable_pnl = current_pnl,
                          !.max_adverse_pnl = current_pnl]

\* state_manager.update_excursions (P&L as PnlNum)
update_excursions(position_info, current_pnl) ==
    LET a == IF current_pnl > position_info.max_favorable_pnl
             THEN [position_info EXCEPT !.max_favorable_pnl = current_pnl]
             ELSE position_info
    IN  IF current_pnl < a.max_adverse_pnl
        THEN [a EXCEPT !.max_adverse_pnl = current_pnl]
        ELSE a

\* strategies.compute_trade_metrics plus the fields the caller and
\* save_trade_metrics add; the P&L fractions are kept as exit and entry price
TradeMetrics(pos, symbol, exit_price, exit_reason, t) ==
    [symbol |-> symbol, direction |-> pos.direction,
     anchor_close |-> pos.anchor_close, entry_price |-> pos.entry_price,
     exit_price |-> exit_price, qty |-> pos.qty,
     trigger_window |-> pos.trigger_window,
     max_favorable_excursion |-> pos.max_favorable_pnl,
     max_adverse_excursion |-> pos.max_adverse_pnl,
     exit_reason |-> exit_reason, closed_at |-> t]

\* ------------------------------------------------------------------------
\* state_manager.py: running performance totals   (state_manager.py 106-296)
\* Percentages are kept in units of 0.0001 (the four decimals the metrics are
\* rounded to), dollars in whole dollars; last_updated is left out.
\* ------------------------------------------------------------------------
\* a field whose value is None
NoValue == -(BP * BP)
\* net_pnl > 0.0001 / net_pnl < -0.0001, in units of 0.0001
BREAKEVEN_BAND == 1
SESSION_LOG_CAP == 30

DEFAULT_PERFORMANCE ==
    [total_sessions |-> 0, sessions_with_trades |-> 0, sessions_no_trades |-> 0,
     total_trades |-> 0, wins |-> 0, losses |-> 0, breakeven |-> 0,
     long_trades |-> 0, long_wins |-> 0, short_trades |-> 0, short_wins |-> 0,
     total_net_pnl_pct |-> 0, total_net_pnl_dollars |-> 0,
     best_trade_pnl_pct |-> 0, best_trade_symbol |-> "None",
     worst_trade_pnl_pct |-> 0, worst_trade_symbol |-> "None",
     avg_win_pct |-> 0, avg_loss_pct |-> 0, avg_mfe_pct |-> 0, avg_mae_pct |-> 0,
     current_streak |-> 0, best_streak |-> 0, worst_streak |-> 0,
     session_log |-> <<>>, win_sum |-> 0, loss_sum |-> 0]

\* round(num / den, 4) of a value counted in units of 0.0001: the nearest
\* unit, a tie going to the even one
Round4(num, den) ==
    LET q == num \div den
        r == num - q * den
    IN  IF 2 * r < den THEN q
        ELSE IF 2 * r > den THEN q + 1
        ELSE IF q % 2 = 0 THEN q ELSE q + 1

\* old_avg + (x - old_avg) / total_trades, on a fraction
RunningAverage(avg, x, total_trades) ==
    [num |-> avg.num * (total_trades - 1) + x * avg.den, den |-> avg.den * total_trades]

LastEntries(log, cap) ==
    IF Len(log) > cap THEN SubSeq(log, Len(log) - cap + 1, Len(log)) ELSE log

\* faulty variant of StreakAfter: a win or loss always restarts the streak
StreakRestarted(streak, net_pnl) ==
    IF net_pnl > BREAKEVEN_BAND THEN 1
    ELSE IF net_pnl < -BREAKEVEN_BAND THEN -1
    ELSE streak

\* perf["current_streak"] after one trade   (state_manager.py 226-236)
StreakAfter(streak, net_pnl) ==
    IF net_pnl > BREAKEVEN_BAND THEN Max(streak, 0) + 1
    ELSE IF net_pnl < -BREAKEVEN_BAND THEN Min(streak, 0) - 1
    ELSE streak

\* faulty variant of AfterTrade: the trade is not counted
TradeIgnored(acc, trade) == acc

\* faulty variant of AfterTrade: the trade is counted but not classified
TradeNotClassified(acc, trade) ==
    [acc EXCEPT !.perf.total_trades = @ + 1]

\* the body of `for trade in session_trades`   (state_manager.py 203-258);
\* acc carries perf and the locals of the call
AfterTrade(acc, trade) ==
    LET perf == acc.perf
        net_pnl == trade.net_pnl_pct
        long == trade.direction = "long"
        win == net_pnl > BREAKEVEN_BAND
        loss == net_pnl < -BREAKEVEN_BAND
        dollar_pnl == IF long THEN (trade.exit_price - trade.entry_price) * trade.qty
                      ELSE (trade.entry_price - trade.exit_price) * trade.qty
        total == perf.total_trades + 1
        best == net_pnl > perf.best_trade_pnl_pct
        worst == net_pnl < perf.worst_trade_pnl_pct
    IN  [perf |->
            [perf EXCEPT
                !.total_trades = total,
                !.total_net_pnl_pct = @ + net_pnl,
                !.total_net_pnl_dollars = @ + dollar_pnl,
                !.wins = IF win THEN @ + 1 ELSE @,
                !.losses = IF loss THEN @ + 1 ELSE @,
                !.breakeven = IF ~win /\ ~loss THEN @ + 1 ELSE @,
                !.current_streak = StreakAfter(@, net_pnl),
                !.long_trades = IF long THEN @ + 1 ELSE @,
                !.long_wins = IF long /\ win THEN @ + 1 ELSE @,
                !.short_trades = IF ~long THEN @ + 1 ELSE @,
                !.short_wins = IF ~long /\ win THEN @ + 1 ELSE @,
                !.best_trade_pnl_pct = IF best THEN net_pnl ELSE @,
                !.best_trade_symbol = IF best THEN trade.symbol ELSE @,
                !.worst_trade_pnl_pct = IF worst THEN net_pnl ELSE @,
                !.worst_trade_symbol = IF worst THEN trade.symbol ELSE @],
         session_pnl_pct |-> acc.session_pnl_pct + net_pnl,
         session_pnl_dollars |-> acc.session_pnl_dollars + dollar_pnl,
         win_pcts |-> IF win THEN acc.win_pcts + net_pnl ELSE acc.win_pcts,
         loss_pcts |-> IF loss THEN acc.loss_pcts + net_pnl ELSE acc.loss_pcts,
         avg_mfe |-> IF trade.max_favorable_excursion # NoValue
                     THEN RunningAverage(acc.avg_mfe, trade.max_favorable_excursion, total)
                     ELSE acc.avg_mfe,
         avg_mae |-> IF trade.max_adverse_excursion # NoValue
                     THEN RunningAverage(acc.avg_mae, trade.max_adverse_excursion, total)
                     ELSE acc.avg_mae]

RECURSIVE AfterTrades(_, _)
AfterTrades(acc, session_trades) ==
    IF session_trades = <<>> THEN acc
    ELSE AfterTrades(AfterTrade(acc, Head(session_trades)), Tail(session_trades))

\* faulty variant of update_performance_after_session: a night without trades
\* ends the streak (and the closing arithmetic of a night with trades is cut)
update_ending_streak(loaded, session_date, session_trades) ==
    LET acc == AfterTrades([perf |-> loaded,
                            session_pnl_pct |-> 0, session_pnl_dollars |-> 0,
                            win_pcts |-> 0, loss_pcts |-> 0,
                            avg_mfe |-> [num |-> loaded.avg_mfe_pct, den |-> 1],
                            avg_mae |-> [num |-> loaded.avg_mae_pct, den |-> 1]],
                           session_trades)
    IN  [acc.perf EXCEPT
            !.total_sessions = @ + 1,
            !.sessions_no_trades = IF session_trades = <<>> THEN @ + 1 ELSE @,
            !.sessions_with_trades = IF session_trades = <<>> THEN @ ELSE @ + 1,
            !.current_streak = IF session_trades = <<>> THEN 0 ELSE @,
            !.session_log = Append(@, [date |-> session_date,
                                       trades |-> Len(session_trades),
                                       net_pnl_pct |-> acc.session_pnl_pct,
                                       net_pnl_dollars |-> acc.session_pnl_dollars])]

\* update_performance_after_session on the ledger load_performance returned;
\* the result is what save_performance writes   (state_manager.py 171-296)
update_performance_after_session(loaded, session_date, session_trades) ==
    LET perf == [loaded EXCEPT !.total_sessions = @ + 1]
    IN  IF session_trades = <<>>
        THEN [perf EXCEPT
                !.sessions_no_trades = @ + 1,
                !.session_log = LastEntries(
                    Append(@, [date |-> session_date, trades |-> 0, net_pnl_pct |-> 0,
                               net_pnl_dollars |-> 0]),
                    SESSION_LOG_CAP)]
        ELSE LET acc == AfterTrades(
                            [perf |-> [perf EXCEPT !.sessions_with_trades = @ + 1],
                             session_pnl_pct |-> 0, session_pnl_dollars |-> 0,
                             win_pcts |-> 0, loss_pcts |-> 0,
                             avg_mfe |-> [num |-> perf.avg_mfe_pct, den |-> 1],
                             avg_mae |-> [num |-> perf.avg_mae_pct, den |-> 1]],
                            session_trades)
                 after == acc.perf
                 win_sum == after.win_sum + acc.win_pcts
                 loss_sum == after.loss_sum + acc.loss_pcts
             IN  [after EXCEPT
                    !.best_streak = Max(@, after.current_streak),
                    !.worst_streak = Min(@, after.current_streak),
                    !.win_sum = win_sum,
                    !.loss_sum = loss_sum,
                    !.avg_win_pct = IF after.wins > 0 THEN Round4(win_sum, after.wins) ELSE @,
                    !.avg_loss_pct = IF after.losses > 0
                                     THEN Round4(loss_sum, after.losses) ELSE @,
                    !.session_log = LastEntries(
                        Append(@, [date |-> session_date, trades |-> Len(session_trades),
                                   net_pnl_pct |-> acc.session_pnl_pct,
                                   net_pnl_dollars |-> acc.session_pnl_dollars,
                                   symbols |-> [i \in 1..Len(session_trades) |->
                                                    session_trades[i].symbol]]),
                        SESSION_LOG_CAP),
                    !.avg_mfe_pct = Round4(acc.avg_mfe.num, acc.avg_mfe.den),
                    !.avg_mae_pct = Round4(acc.avg_mae.num, acc.avg_mae.den)]

\* a metrics entry as update_performance_after_session reads it: the rounded
\* fields compute_trade_metrics wrote   (strategies.py 249-269)
LedgerTrade(m) ==
    LET raw == PnlNum(m.entry_price, m.exit_price, m.direction)
    IN  [symbol |-> m.symbol, direction |-> m.direction,
         entry_price |-> m.entry_price, exit_price |-> m.exit_price, qty |-> m.qty,
         net_pnl_pct |-> Round4(raw * BP - ASSUMED_FRICTION_PCT * m.entry_price,
                                m.entry_price),
         max_favorable_excursion |-> Round4(m.max_favorable_excursion * BP, m.entry_price),
         max_adverse_excursion |-> Round4(m.max_adverse_excursion * BP, m.entry_price)]

\* main._collect_session_trades: the entries closed on the session's date
\* (main.py 541-552); dates are day numbers
_collect_session_trades(metrics_list, session_date) ==
    LET closed_today == SelectSeq(metrics_list, LAMBDA m : DayOf(m.closed_at) = session_date)
    IN  [i \in 1..Len(closed_today) |-> LedgerTrade(closed_today[i])]

\* ------------------------------------------------------------------------
\* run_session: phase sequencing   (main.py 630-692)
\* ------------------------------------------------------------------------
Enter(phase) == <<"call", phase>>
Return(phase) == <<"return", phase>>

\* faulty variant of AfterPhase: MONITOR_AND_ENTER is run again after MANAGE
AfterPhaseAgain(phase) ==
    CASE phase = "ANCHOR" -> "monitor"
      [] phase = "MONITOR_AND_ENTER" -> "manage"
      [] phase = "MANAGE" -> "monitor"
      [] phase = "EXIT" -> "finally"

\* the statement run_session executes after a phase function has returned
AfterPhase(phase) ==
    CASE phase = "ANCHOR" -> "monitor"
      [] phase = "MONITOR_AND_ENTER" -> "manage"
      [] phase = "MANAGE" -> "exit"
      [] phase = "EXIT" -> "finally"

\* a call may fail while the fault budget lasts
MayFail == faults < MaxFaults
Fails == MayFail /\ faults' = faults + 1
Succeeds == faults' = faults

Init ==
    /\ pc = "start"
    /\ \E d \in StartDays : clock = d * MinPerDay + BOT_START_HOUR * 60 + BOT_START_MINUTE
    /\ dry_run \in BOOLEAN
    /\ session_start = 0
    /\ session_active = FALSE
    /\ anchor_closes = [s \in Symbols |-> 0]
    /\ positions = <<>>
    /\ trade_history = <<>>
    /\ saved = Doc(FALSE, [s \in Symbols |-> 0], <<>>, <<>>)
    /\ metrics = <<>>
    /\ orders = [s \in Symbols |-> [entry |-> 0, close |-> 0]]
    /\ last_order = NoOrder
    /\ loc = NoLocals
    /\ events = <<>>
    /\ raised = NotRaised
    /\ perf_calls = 0
    /\ faults = 0
    /\ quotes = 0
    /\ call = NoCall
    /\ performance = DEFAULT_PERFORMANCE

\* run_session up to the try block; save_state is outside it
SessionStart ==
    /\ pc = "start"
    /\ session_start' = clock
    /\ session_active' = TRUE
    /\ positions' = <<>>
    /\ anchor_closes' = [s \in Symbols |-> 0]
    /\ \/ /\ Succeeds
          /\ saved' = Doc(TRUE, anchor_closes', positions', trade_history)
          /\ pc' = "anchor"
          /\ raised' = raised
       \/ /\ Fails
          /\ saved' = saved
          /\ pc' = "crashed"
          /\ raised' = Error("start")
    /\ UNCHANGED <<performance, call, quotes, clock, dry_run, trade_history, metrics, orders, last_order, loc,
                   events, perf_calls>>

\* ------------------------------------------------------------------------
\* PHASE 1: phase_anchor   (main.py 153-183)
\* ------------------------------------------------------------------------
\* faulty variant of AnchorCloses: every price the feed returned is kept
AnchorsEveryPrice(prices) == prices

\* the loop over the watchlist: `if price and price > 0`   (main.py 166-171)
AnchorCloses(prices) == [s \in Symbols |-> IF prices[s] > 0 THEN prices[s] ELSE 0]

PhaseAnchor ==
    /\ pc = "anchor"
    /\ clock' = Sleep(sleep_until(clock, ANCHOR_HOUR, ANCHOR_MINUTE), 10)
    /\ \/ \* fetch_live_prices raises
          /\ Fails
          /\ pc' = "finally"
          /\ raised' = Error("ANCHOR")
          /\ events' = Append(events, Enter("ANCHOR"))
          /\ UNCHANGED <<anchor_closes, saved>>
       \/ \E prices \in AnchorSnapshots :
            /\ anchor_closes' = AnchorCloses(prices)
            /\ \/ /\ Succeeds
                  /\ saved' = Doc(session_active, anchor_closes', positions, trade_history)
                  /\ pc' = AfterPhase("ANCHOR")
                  /\ raised' = raised
                  /\ events' = events \o <<Enter("ANCHOR"), Return("ANCHOR")>>
               \/ \* save_state raises
                  /\ Fails
                  /\ saved' = saved
                  /\ pc' = "finally"
                  /\ raised' = Error("ANCHOR")
                  /\ events' = Append(events, Enter("ANCHOR"))
    /\ UNCHANGED <<performance, call, quotes, dry_run, session_start, session_active, positions, trade_history,
                   metrics, orders, last_order, loc, perf_calls>>

\* ------------------------------------------------------------------------
\* PHASE 2: phase_monitor_and_enter   (main.py 197-346)
\* ------------------------------------------------------------------------
\* faulty variant of submit_limit_extended: a failed submission is swallowed
\* and something truthy is returned
submit_swallowing(qty, accepted) == IF qty <= 0 THEN "none" ELSE "order"

\* alpaca_client.buy_limit_extended / sell_limit_extended /
\* sell_short_limit_extended: nothing is sent for a non-positive quantity;
\* otherwise the client's submit_order returns the order or raises
submit_limit_extended(qty, accepted) ==
    IF qty <= 0 THEN "none" ELSE IF accepted THEN "order" ELSE "raise"

\* `if order:`   (main.py 306)
OrderPlaced(order) == order = "order"

\* faulty variant of submits_orders: the flag is not looked at
submits_always(dry) == TRUE

\* `if not dry_run:`   (main.py 300)
submits_orders(dry) == ~dry

\* faulty variant of AlreadyHeld: the guard is missing
NeverHeld(pos, symbol) == FALSE

\* `if symbol in positions: continue`   (main.py 256)
AlreadyHeld(pos, symbol) == HasKey(pos, symbol)

\* `if slots_remaining <= 0: continue`   (main.py 276)
NoSlots(slots_remaining) == slots_remaining <= 0

\* faulty variant of AfterEntry: the cash spent is not taken off
AfterEntryCashKept(l, direction, notional) ==
    [l EXCEPT !.active_count = l.active_count + 1,
              !.slots_remaining = l.slots_remaining - 1]

\* faulty variant of AfterEntry: the scan's counters are not updated
AfterEntryUncounted(l, direction, notional) == l

\* bookkeeping after an entry: main.py 320-324 and 328-332
AfterEntry(l, direction, notional) ==
    [l EXCEPT !.active_count = l.active_count + 1,
              !.slots_remaining = l.slots_remaining - 1,
              !.available_cash = IF direction = "long"
                                 THEN Max(l.available_cash - notional, 0)
                                 ELSE l.available_cash]

NewPosition(symbol, direction, price, qty, t, window, anchor) ==
    [symbol |-> symbol, direction |-> direction, entry_price |-> price, qty |-> qty,
     entry_time |-> t, trigger_window |-> window, entry_spread_pct |-> 0,
     anchor_close |-> anchor, max_favorable_pnl |-> 0, max_adverse_pnl |-> 0]

\* what one pass of the `for symbol in symbols_to_check` body decides before
\* any order is sent   (main.py 251-298)
ScanDecision(symbol, price, l, pos, ac) ==
    LET skip == [kind |-> "skip", direction |-> "none", qty |-> 0, reason |-> "-"]
        sig == evaluate_entry_signal(ac[symbol], price, l.friday, l.active_count)
        qty == compute_position_size(l.equity, price, sig.direction,
                                     l.available_cash, l.slots_remaining)
    IN  IF price = 0 THEN skip
        ELSE IF AlreadyHeld(pos, symbol) THEN skip
        ELSE IF NotExtreme(ac[symbol], price) THEN skip
        ELSE IF NoSlots(l.slots_remaining) THEN skip
        ELSE IF ~sig.enter THEN skip
        ELSE IF qty <= 0 THEN skip
        ELSE [kind |-> "enter", direction |-> sig.direction, qty |-> qty,
              reason |-> sig.reason]

\* seen_extreme after the pass over a symbol   (main.py 251-274)
Seen(l, symbol, price, pos, ac) ==
    IF price = 0 \/ AlreadyHeld(pos, symbol) THEN l
    ELSE IF NotExtreme(ac[symbol], price)
    THEN [l EXCEPT !.seen_extreme = @ \ {symbol}]
    ELSE [l EXCEPT !.seen_extreme = @ \cup {symbol}]

\* faulty variant of Caught: after a caught error the loop goes straight to
\* its next iteration, past the tail of the body
CaughtThenContinue(tail, phase) ==
    [pc |-> IF tail = "scan_end" THEN "scan_top" ELSE tail, raised |-> NotRaised]

\* faulty variant of Caught: the error leaves the loop and the phase
Propagated(tail, phase) == [pc |-> "finally", raised |-> Error(phase)]

\* the except clause of a loop body: the error is logged and the body's tail
\* runs   (main.py 334-335, 462-463)
Caught(tail, phase) == [pc |-> tail, raised |-> NotRaised]

NextSymbol(l) == [l EXCEPT !.i = l.i + 1]
AfterSymbol(l, loop_pc, end_pc) == IF l.i >= Len(l.symbols) THEN end_pc ELSE loop_pc

MonitorStart ==
    /\ pc = "monitor"
    /\ clock' = sleep_until(clock, MONITOR_START_HOUR, MONITOR_START_MINUTE)
    /\ IF AnchoredKeys(anchor_closes) = <<>>
       THEN \* "No anchor closes stored": return
            /\ Succeeds
            /\ pc' = AfterPhase("MONITOR_AND_ENTER")
            /\ events' = events \o <<Enter("MONITOR_AND_ENTER"), Return("MONITOR_AND_ENTER")>>
            /\ loc' = NoLocals
       ELSE \/ \* get_equity / get_cash raises: logged, return
               /\ Fails
               /\ pc' = AfterPhase("MONITOR_AND_ENTER")
               /\ events' = events \o <<Enter("MONITOR_AND_ENTER"), Return("MONITOR_AND_ENTER")>>
               /\ loc' = NoLocals
            \/ /\ Succeeds
               /\ \E equity \in Equities, cash \in Cashes :
                    loc' = [NoLocals EXCEPT !.equity = equity, !.available_cash = cash,
                                            !.friday = is_friday(clock')]
               /\ pc' = "scan_top"
               /\ events' = Append(events, Enter("MONITOR_AND_ENTER"))
    /\ UNCHANGED <<performance, call, quotes, dry_run, session_start, session_active, anchor_closes, positions,
                   trade_history, saved, metrics, orders, last_order, raised, perf_calls>>

\* `while not is_past_entry_cutoff()` and the head of the loop body up to the
\* price fetch
MonitorLoop ==
    /\ pc = "scan_top"
    /\ IF is_past_entry_cutoff(clock)
       THEN /\ Succeeds
            /\ pc' = AfterPhase("MONITOR_AND_ENTER")
            /\ events' = Append(events, Return("MONITOR_AND_ENTER"))
            /\ loc' = NoLocals
            /\ raised' = raised
            /\ clock' = clock
       ELSE LET l == [loc EXCEPT !.active_count = Len(positions),
                                 !.slots_remaining = MAX_CONCURRENT_POSITIONS - Len(positions),
                                 !.window = _get_trigger_window(clock),
                                 !.caught = FALSE, !.symbols = <<>>, !.i = 0]
            IN  /\ \/ \* fetch_live_prices raises: caught by the except clause
                      /\ Fails
                      /\ loc' = [l EXCEPT !.caught = TRUE]
                      /\ pc' = Caught("scan_end", "MONITOR_AND_ENTER").pc
                      /\ raised' = Caught("scan_end", "MONITOR_AND_ENTER").raised
                      /\ clock' = clock
                   \/ \* the snapshot arrives, at once or by the next observed
                      \* instant: the loop test is not made again before the orders
                      /\ Succeeds
                      /\ loc' = [l EXCEPT !.symbols = AnchoredKeys(anchor_closes), !.i = 1]
                      /\ pc' = "scan_sym"
                      /\ raised' = raised
                      /\ clock' \in {clock, WakeAt(clock + 1)}
                /\ events' = events
    /\ UNCHANGED <<performance, call, quotes, dry_run, session_start, session_active, anchor_closes,
                   positions, trade_history, saved, metrics, orders, last_order,
                   perf_calls>>

\* a symbol the scan passes over
ScanSkip ==
    /\ pc = "scan_sym"
    /\ \E price \in MonitorQuotes(loc.symbols[loc.i]) :
         LET symbol == loc.symbols[loc.i]
         IN  /\ ScanDecision(symbol, price, loc, positions, anchor_closes).kind = "skip"
             /\ loc' = NextSymbol(Seen(loc, symbol, price, positions, anchor_closes))
    /\ pc' = AfterSymbol(loc, "scan_sym", "scan_end")
    /\ UNCHANGED <<performance, call, quotes, clock, dry_run, session_start, session_active, anchor_closes,
                   positions, trade_history, saved, metrics, orders, last_order,
                   events, raised, perf_calls, faults>>

\* an entry attempt, live   (main.py 300-324)
ScanEnterLive ==
    /\ pc = "scan_sym"
    /\ submits_orders(dry_run)
    /\ \E price \in MonitorQuotes(loc.symbols[loc.i]), accepted \in BOOLEAN :
         LET symbol == loc.symbols[loc.i]
             d == ScanDecision(symbol, price, loc, positions, anchor_closes)
             l == Seen(loc, symbol, price, positions, anchor_closes)
             order == submit_limit_extended(d.qty, accepted)
             op == IF d.direction = "long" THEN "buy_limit_extended"
                   ELSE "sell_short_limit_extended"
         IN  /\ d.kind = "enter"
             /\ IF accepted THEN Succeeds ELSE Fails
             /\ last_order' = [op |-> op, symbol |-> symbol, purpose |-> "entry",
                               result |-> order]
             /\ orders' = IF accepted
                          THEN [orders EXCEPT ![symbol].entry = @ + 1]
                          ELSE orders
             /\ IF order = "raise"
                THEN \* caught by the except clause: the rest of the scan is skipped
                     /\ loc' = [l EXCEPT !.caught = TRUE]
                     /\ pc' = Caught("scan_end", "MONITOR_AND_ENTER").pc
                     /\ raised' = Caught("scan_end", "MONITOR_AND_ENTER").raised
                     /\ UNCHANGED <<positions, trade_history>>
                ELSE /\ pc' = AfterSymbol(loc, "scan_sym", "scan_end")
                     /\ raised' = raised
                     /\ IF OrderPlaced(order)
                        THEN /\ positions' = Append(positions,
                                    NewPosition(symbol, d.direction, price, d.qty, clock,
                                                loc.window, anchor_closes[symbol]))
                             /\ trade_history' = log_trade(trade_history, clock, "ENTRY",
                                    symbol, d.qty, price, d.reason, d.direction)
                             /\ loc' = NextSymbol(AfterEntry(l, d.direction, d.qty * price))
                        ELSE /\ loc' = NextSymbol(l)
                             /\ UNCHANGED <<positions, trade_history>>
    /\ UNCHANGED <<performance, call, quotes, clock, dry_run, session_start, session_active, anchor_closes,
                   saved, metrics, events, perf_calls>>

\* an entry attempt in dry-run mode   (main.py 325-332)
ScanEnterDry ==
    /\ pc = "scan_sym"
    /\ dry_run
    /\ \E price \in MonitorQuotes(loc.symbols[loc.i]) :
         LET symbol == loc.symbols[loc.i]
             d == ScanDecision(symbol, price, loc, positions, anchor_closes)
             l == Seen(loc, symbol, price, positions, anchor_closes)
         IN  /\ d.kind = "enter"
             /\ loc' = NextSymbol(AfterEntry(l, d.direction, d.qty * price))
    /\ pc' = AfterSymbol(loc, "scan_sym", "scan_end")
    /\ UNCHANGED <<performance, call, quotes, clock, dry_run, session_start, session_active, anchor_closes,
                   positions, trade_history, saved, metrics, orders, last_order,
                   events, raised, perf_calls, faults>>

\* the tail of the loop body: state["positions"] = positions; save_state; sleep
ScanEnd ==
    /\ pc = "scan_end"
    /\ \/ /\ Succeeds
          /\ saved' = Doc(session_active, anchor_closes, positions, trade_history)
          /\ clock' = Sleep(clock, MONITOR_INTERVAL_SEC)
          /\ pc' = "scan_top"
          /\ UNCHANGED <<raised, loc>>
       \/ \* save_state raises: nothing around it catches
          /\ Fails
          /\ pc' = "finally"
          /\ raised' = Error("MONITOR_AND_ENTER")
          /\ loc' = NoLocals
          /\ UNCHANGED <<saved, clock>>
    /\ UNCHANGED <<performance, call, quotes, dry_run, session_start, session_active, anchor_closes, positions,
                   trade_history, metrics, orders, last_order, events, perf_calls>>

\* ------------------------------------------------------------------------
\* PHASE 3: phase_manage and run_manage_cycle   (main.py 353-466)
\* ------------------------------------------------------------------------
\* price = snap.get("price"): the prices the cycle has read so far, one per
\* symbol passed   (main.py 366-367)
PriceRead(l, price) == [l EXCEPT !.prices = Append(@, price)]

ManageStart ==
    /\ pc = "manage"
    /\ IF ~is_weekday(clock) \/ (is_friday(clock) /\ time_reached(clock, 20, 0))
       THEN /\ clock' = sleep_until_next_weekday(clock, EXIT_HOUR, EXIT_MINUTE - 5)
            /\ pc' = AfterPhase("MANAGE")
            /\ events' = events \o <<Enter("MANAGE"), Return("MANAGE")>>
       ELSE /\ clock' = clock
            /\ pc' = "manage_top"
            /\ events' = Append(events, Enter("MANAGE"))
    /\ loc' = NoLocals
    /\ UNCHANGED <<performance, call, quotes, dry_run, session_start, session_active, anchor_closes, positions,
                   trade_history, saved, metrics, orders, last_order, raised,
                   perf_calls, faults>>

\* `while not is_session_over()` and the body up to the snapshot fetch of
\* run_manage_cycle
ManageLoop ==
    /\ pc = "manage_top"
    /\ IF is_session_over(clock) \/ is_exit_time(clock)
       THEN /\ Succeeds
            /\ pc' = AfterPhase("MANAGE")
            /\ events' = Append(events, Return("MANAGE"))
            /\ loc' = NoLocals
            /\ UNCHANGED <<clock, raised>>
       ELSE IF ~is_weekday(clock)
       THEN /\ Succeeds
            /\ clock' = sleep_until_next_weekday(clock, EXIT_HOUR, EXIT_MINUTE - 5)
            /\ pc' = AfterPhase("MANAGE")
            /\ events' = Append(events, Return("MANAGE"))
            /\ loc' = NoLocals
            /\ raised' = raised
       ELSE IF positions = <<>>
       THEN /\ Succeeds
            /\ clock' = Sleep(clock, OVERNIGHT_INTERVAL_SEC)
            /\ UNCHANGED <<pc, events, loc, raised>>
       ELSE /\ \/ \* fetch_snapshots raises: caught in phase_manage
                  /\ Fails
                  /\ loc' = [NoLocals EXCEPT !.caught = TRUE]
                  /\ pc' = Caught("manage_end", "MANAGE").pc
                  /\ raised' = Caught("manage_end", "MANAGE").raised
               \/ /\ Succeeds
                  /\ loc' = [NoLocals EXCEPT !.symbols = Keys(positions), !.i = 1]
                  /\ pc' = "cycle_sym"
                  /\ raised' = raised
            /\ UNCHANGED <<clock, events>>
    /\ UNCHANGED <<performance, call, quotes, dry_run, session_start, session_active, anchor_closes, positions,
                   trade_history, saved, metrics, orders, last_order, perf_calls>>

\* one pass of the `for symbol in list(positions.keys())` body that sends no
\* order: no price, a hold, or a dry-run exit   (main.py 365-389, 414-417)
ManageHold ==
    /\ pc = "cycle_sym"
    /\ \E price \in ManagePrices, liq \in Liquidity :
         LET symbol == loc.symbols[loc.i]
             old == Item(positions, symbol)
             pos == update_excursions(old, PnlNum(old.entry_price, price, old.direction))
             m == evaluate_overnight_management(old.entry_price, price, old.direction,
                                                liq[1], liq[2])
         IN  /\ IF price = 0
                THEN UNCHANGED <<positions, quotes>>
                ELSE /\ quotes < MaxQuotes
                     /\ quotes' = quotes + 1
                     /\ ~m.hit \/ dry_run
                     /\ positions' = SetItem(positions, symbol, pos)
             /\ loc' = NextSymbol(PriceRead(loc, price))
    /\ pc' = AfterSymbol(loc, "cycle_sym", "manage_end")
    /\ UNCHANGED <<performance, call, clock, dry_run, session_start, session_active, anchor_closes,
                   trade_history, saved, metrics, orders, last_order, events, raised,
                   perf_calls, faults>>

\* a pass that exits the position: closing order, metrics, EXIT record,
\* removal   (main.py 391-413)
ManageExit ==
    /\ pc = "cycle_sym"
    /\ ~dry_run
    /\ \E price \in ManagePrices \ {0}, liq \in Liquidity,
          accepted \in BOOLEAN, written \in BOOLEAN :
         LET symbol == loc.symbols[loc.i]
             old == Item(positions, symbol)
             pos == update_excursions(old, PnlNum(old.entry_price, price, old.direction))
             m == evaluate_overnight_management(old.entry_price, price, old.direction,
                                                liq[1], liq[2])
             op == IF old.direction = "long" THEN "sell_limit_extended"
                   ELSE "buy_limit_extended"
             order == submit_limit_extended(pos.qty, accepted)
             held == SetItem(positions, symbol, pos)
         IN  /\ m.hit
             /\ quotes < MaxQuotes
             /\ quotes' = quotes + 1
             /\ accepted \/ written
             /\ IF accepted /\ written THEN Succeeds ELSE Fails
             /\ last_order' = [op |-> op, symbol |-> symbol, purpose |-> "close",
                               result |-> order]
             /\ orders' = IF accepted
                          THEN [orders EXCEPT ![symbol].close = @ + 1]
                          ELSE orders
             /\ IF order = "raise" \/ ~written
                THEN \* the order submission or save_trade_metrics raises: the
                     \* exception leaves run_manage_cycle, caught in phase_manage
                     /\ positions' = held
                     /\ loc' = [PriceRead(loc, price) EXCEPT !.caught = TRUE]
                     /\ pc' = Caught("manage_end", "MANAGE").pc
                     /\ raised' = Caught("manage_end", "MANAGE").raised
                     /\ UNCHANGED <<trade_history, metrics>>
                ELSE /\ metrics' = save_trade_metrics(metrics,
                            TradeMetrics(pos, symbol, price, m.reason, clock))
                     /\ trade_history' = log_trade(trade_history, clock, "EXIT",
                            symbol, pos.qty, price, m.reason, pos.direction)
                     /\ positions' = DelKey(held, symbol)
                     /\ loc' = NextSymbol(PriceRead(loc, price))
                     /\ pc' = AfterSymbol(loc, "cycle_sym", "manage_end")
                     /\ raised' = raised
    /\ UNCHANGED <<performance, call, clock, dry_run, session_start, session_active, anchor_closes,
                   saved, events, perf_calls>>

\* back in phase_manage: save_state; sleep
ManageEnd ==
    /\ pc = "manage_end"
    /\ \/ /\ Succeeds
          /\ saved' = Doc(session_active, anchor_closes, positions, trade_history)
          /\ clock' = Sleep(clock, OVERNIGHT_INTERVAL_SEC)
          /\ pc' = "manage_top"
          /\ UNCHANGED <<raised, loc>>
       \/ \* save_state raises: nothing around it catches
          /\ Fails
          /\ pc' = "finally"
          /\ raised' = Error("MANAGE")
          /\ loc' = NoLocals
          /\ UNCHANGED <<saved, clock>>
    /\ UNCHANGED <<performance, call, quotes, dry_run, session_start, session_active, anchor_closes, positions,
                   trade_history, metrics, orders, last_order, events, perf_calls>>

\* ------------------------------------------------------------------------
\* PHASE 4: phase_exit   (main.py 473-534)
\* ------------------------------------------------------------------------
ExitStart ==
    /\ pc = "exit"
    /\ IF positions = <<>>
       THEN /\ Succeeds
            /\ pc' = AfterPhase("EXIT")
            /\ events' = events \o <<Enter("EXIT"), Return("EXIT")>>
            /\ UNCHANGED <<clock, loc, raised>>
       ELSE /\ clock' = Sleep(sleep_until_next_weekday(clock, EXIT_HOUR, EXIT_MINUTE), 5)
            /\ events' = Append(events, Enter("EXIT"))
            /\ \/ \* fetch_live_prices raises
                  /\ Fails
                  /\ pc' = "finally"
                  /\ raised' = Error("EXIT")
                  /\ loc' = NoLocals
               \/ /\ Succeeds
                  /\ \E prices \in ExitSnapshots :
                       loc' = [NoLocals EXCEPT !.symbols = Keys(positions), !.i = 1,
                                               !.prices = prices]
                  /\ pc' = "exit_sym"
                  /\ raised' = raised
    /\ UNCHANGED <<performance, call, quotes, dry_run, session_start, session_active, anchor_closes, positions,
                   trade_history, saved, metrics, orders, last_order, perf_calls>>

\* alpaca_client.close_position: True, or False when the client raised
close_position(accepted) == IF accepted THEN "closed" ELSE "failed"

\* one pass of the `for symbol in symbols` body; the value close_position
\* returns is not looked at   (main.py 508, 528)
ExitSymbol ==
    /\ pc = "exit_sym"
    /\ \E accepted \in BOOLEAN, written \in BOOLEAN :
         LET symbol == loc.symbols[loc.i]
             pos == Item(positions, symbol)
             price == loc.prices[symbol]
             m == evaluate_morning_exit(pos.entry_price, price, pos.direction)
             result == close_position(accepted)
             called == [op |-> "close_position", symbol |-> symbol, purpose |-> "close",
                        result |-> result]
             counted == IF accepted THEN [orders EXCEPT ![symbol].close = @ + 1]
                        ELSE orders
         IN  /\ accepted \/ written
             /\ IF accepted /\ written THEN Succeeds ELSE Fails
             /\ IF dry_run
                THEN /\ accepted /\ written
                     /\ loc' = NextSymbol(loc)
                     /\ pc' = AfterSymbol(loc, "exit_sym", "exit_end")
                     /\ UNCHANGED <<positions, trade_history, metrics, orders,
                                    last_order, raised>>
                ELSE /\ last_order' = called
                     /\ orders' = counted
                     /\ IF m.action = "close"
                        THEN IF ~written
                             THEN \* save_trade_metrics raises and leaves phase_exit
                                  /\ pc' = "finally"
                                  /\ raised' = Error("EXIT")
                                  /\ loc' = NoLocals
                                  /\ UNCHANGED <<positions, trade_history, metrics>>
                             ELSE /\ metrics' = save_trade_metrics(metrics,
                                        TradeMetrics(pos, symbol, price,
                                                     "morning_closeout", clock))
                                  /\ trade_history' = log_trade(trade_history, clock,
                                        "EXIT", symbol, pos.qty, price,
                                        "morning closeout", pos.direction)
                                  /\ positions' = DelKey(positions, symbol)
                                  /\ loc' = NextSymbol(loc)
                                  /\ pc' = AfterSymbol(loc, "exit_sym", "exit_end")
                                  /\ raised' = raised
                        ELSE \* "Unexpected action": forced close, no records
                             /\ written
                             /\ positions' = DelKey(positions, symbol)
                             /\ loc' = NextSymbol(loc)
                             /\ pc' = AfterSymbol(loc, "exit_sym", "exit_end")
                             /\ UNCHANGED <<trade_history, metrics, raised>>
    /\ UNCHANGED <<performance, call, quotes, clock, dry_run, session_start, session_active, anchor_closes,
                   saved, events, perf_calls>>

\* state["positions"] = positions; save_state
ExitEnd ==
    /\ pc = "exit_end"
    /\ \/ /\ Succeeds
          /\ saved' = Doc(session_active, anchor_closes, positions, trade_history)
          /\ pc' = AfterPhase("EXIT")
          /\ events' = Append(events, Return("EXIT"))
          /\ raised' = raised
       \/ /\ Fails
          /\ pc' = "finally"
          /\ raised' = Error("EXIT")
          /\ UNCHANGED <<saved, events>>
    /\ loc' = NoLocals
    /\ UNCHANGED <<performance, call, quotes, clock, dry_run, session_start, session_active, anchor_closes,
                   positions, trade_history, metrics, orders, last_order, perf_calls>>

\* ------------------------------------------------------------------------
\* run_session: the finally clause and the performance update (main.py 673-692)
\* ------------------------------------------------------------------------
Finalize ==
    /\ pc = "finally"
    /\ session_active' = FALSE
    /\ \/ \* save_state succeeds; update_performance_after_session is called
          \* (its own failure is caught and logged)
          /\ Succeeds
          /\ saved' = Doc(FALSE, anchor_closes, positions, trade_history)
          /\ perf_calls' = perf_calls + 1
          /\ performance' = update_performance_after_session(performance,
                                DayOf(session_start),
                                _collect_session_trades(metrics, DayOf(session_start)))
          /\ pc' = "done"
       \/ \* save_state raises inside finally: run_session is left
          /\ Fails
          /\ UNCHANGED <<saved, perf_calls, performance>>
          /\ pc' = "crashed"
    /\ UNCHANGED <<call, quotes, clock, dry_run, session_start, anchor_closes, positions,
                   trade_history, metrics, orders, last_order, loc, events, raised>>

Next ==
    \/ SessionStart
    \/ PhaseAnchor
    \/ MonitorStart
    \/ MonitorLoop
    \/ ScanSkip
    \/ ScanEnterLive
    \/ ScanEnterDry
    \/ ScanEnd
    \/ ManageStart
    \/ ManageLoop
    \/ ManageHold
    \/ ManageExit
    \/ ManageEnd
    \/ ExitStart
    \/ ExitSymbol
    \/ ExitEnd
    \/ Finalize

Spec == Init /\ [][Next]_vars

\* ------------------------------------------------------------------------
\* strategies.py on its own: one call of one decision function, its arguments
\* drawn from bounded sets.  The functions compare ratios of prices, so the
\* price unit is free: the signal and exit functions are called with prices
\* in tenths of a dollar, the sizing function with whole dollars.
\* ------------------------------------------------------------------------
Directions == {"long", "short"}
SignalAnchors == {-1000, 0, 1000, 2000}
SignalPrices == {-930, 0, 920, 930, 931, 1000, 1069, 1070, 1075, 1860, 1861, 2140}
SignalCounts == 0..(MAX_CONCURRENT_POSITIONS + 1)
SizeEquities == {-100000, 0, 3000, 50000, 100000}
SizePrices == {-50, 0, 3, 50, 92, 108, 5000}
SizeCashes == {-30000, 0, 10000, 30000, 500000}
SizeSlots == -1..MAX_CONCURRENT_POSITIONS
HeldEntries == {-500, 0, 500, 1000}
HeldPrices == {0, 474, 475, 476, 487, 500, 512, 513, 525, 526, 950, 1025, 1050}
Spreads == {-1, 0, 40, 41, 60}
Volumes == {-1, 0, 99, 100, 200}

Called(fn, args) == [fn |-> fn, args |-> args, returned |-> FALSE, result |-> "pending"]

Calls ==
    {Called("evaluate_entry_signal",
            [anchor_close |-> a, current_price |-> c, is_friday |-> f,
             active_positions_count |-> n]) :
        a \in SignalAnchors, c \in SignalPrices, f \in BOOLEAN, n \in SignalCounts}
    \cup
    {Called("compute_position_size",
            [equity |-> e, entry_price |-> p, direction |-> d, available_cash |-> c,
             slots_remaining |-> n]) :
        e \in SizeEquities, p \in SizePrices, d \in Directions, c \in SizeCashes,
        n \in SizeSlots}
    \cup
    {Called(fn, [entry_price |-> e, current_price |-> c, direction |-> d,
                 spread_pct |-> sp, recent_volume |-> v]) :
        fn \in {"check_profit_ceiling", "evaluate_overnight_management"},
        e \in HeldEntries, c \in HeldPrices, d \in Directions, sp \in Spreads,
        v \in Volumes}
    \cup
    {Called(fn, [entry_price |-> e, current_price |-> c, direction |-> d]) :
        fn \in {"check_hard_stop", "evaluate_morning_exit"},
        e \in HeldEntries, c \in HeldPrices, d \in Directions}

\* no session is running
StrategyInit ==
    /\ call \in Calls
    /\ performance = DEFAULT_PERFORMANCE
    /\ pc = "idle"
    /\ clock = 0
    /\ dry_run = FALSE
    /\ session_start = 0
    /\ session_active = FALSE
    /\ anchor_closes = [s \in Symbols |-> 0]
    /\ positions = <<>>
    /\ trade_history = <<>>
    /\ saved = Doc(FALSE, [s \in Symbols |-> 0], <<>>, <<>>)
    /\ metrics = <<>>
    /\ orders = [s \in Symbols |-> [entry |-> 0, close |-> 0]]
    /\ last_order = NoOrder
    /\ loc = NoLocals
    /\ events = <<>>
    /\ raised = NotRaised
    /\ perf_calls = 0
    /\ faults = 0
    /\ quotes = 0

\* the function returns; nothing but the caller's result changes
Returns(result) ==
    /\ ~call.returned
    /\ call' = [call EXCEPT !.returned = TRUE, !.result = result]
    /\ UNCHANGED <<performance, pc, clock, dry_run, session_start, session_active, anchor_closes,
                   positions, trade_history, saved, metrics, orders, last_order, loc,
                   events, raised, perf_calls, faults, quotes>>

CallEntrySignal ==
    /\ call.fn = "evaluate_entry_signal"
    /\ Returns(evaluate_entry_signal(call.args.anchor_close, call.args.current_price,
               call.args.is_friday, call.args.active_positions_count))

CallPositionSize ==
    /\ call.fn = "compute_position_size"
    /\ Returns(compute_position_size(call.args.equity, call.args.entry_price,
               call.args.direction, call.args.available_cash,
               call.args.slots_remaining))

CallHardStop ==
    /\ call.fn = "check_hard_stop"
    /\ Returns(check_hard_stop(call.args.entry_price, call.args.current_price,
               call.args.direction))

CallProfitCeiling ==
    /\ call.fn = "check_profit_ceiling"
    /\ Returns(check_profit_ceiling(call.args.entry_price, call.args.current_price,
               call.args.direction, call.args.spread_pct,
               call.args.recent_volume))

CallOvernightManagement ==
    /\ call.fn = "evaluate_overnight_management"
    /\ Returns(evaluate_overnight_management(call.args.entry_price, call.args.current_price,
               call.args.direction, call.args.spread_pct,
               call.args.recent_volume))

CallMorningExit ==
    /\ call.fn = "evaluate_morning_exit"
    /\ Returns(evaluate_morning_exit(call.args.entry_price, call.args.current_price,
               call.args.direction))

StrategyNext ==
    \/ CallEntrySignal
    \/ CallPositionSize
    \/ CallHardStop
    \/ CallProfitCeiling
    \/ CallOvernightManagement
    \/ CallMorningExit

StrategySpec == StrategyInit /\ [][StrategyNext]_vars

\* ------------------------------------------------------------------------
\* state_manager.py on its own: sequences of calls on one object
\* ------------------------------------------------------------------------
session_vars == <<pc, clock, dry_run, session_start, session_active, anchor_closes,
                  positions, trade_history, saved, metrics, orders, last_order, loc,
                  events, raised, perf_calls, faults, quotes>>

\* no session is running
Idle ==
    /\ performance = DEFAULT_PERFORMANCE
    /\ pc = "idle"
    /\ clock = 0
    /\ dry_run = FALSE
    /\ session_start = 0
    /\ session_active = FALSE
    /\ anchor_closes = [s \in Symbols |-> 0]
    /\ positions = <<>>
    /\ trade_history = <<>>
    /\ saved = Doc(FALSE, [s \in Symbols |-> 0], <<>>, <<>>)
    /\ metrics = <<>>
    /\ orders = [s \in Symbols |-> [entry |-> 0, close |-> 0]]
    /\ last_order = NoOrder
    /\ loc = NoLocals
    /\ events = <<>>
    /\ raised = NotRaised
    /\ perf_calls = 0
    /\ faults = 0
    /\ quotes = 0

\* P&L values handed to update_excursions (numerators over one entry price)
ExcursionPnls == {-8, -3, 0, 3, 8}
\* the position the calls work on: as created at entry (main.py 315-316), or
\* as loaded with excursions already recorded
ExcursionStarts ==
    {[max_favorable_pnl |-> f, max_adverse_pnl |-> a] : f \in {0, 3}, a \in {-3, 0}}

\* update_excursions(position_info, current_pnl_pct), called again and again
\* on the same position_info; args.passed lists the P&L values passed so far
ExcursionInit ==
    /\ call \in {Called("update_excursions", [position_info |-> p, passed |-> <<>>]) :
                    p \in ExcursionStarts}
    /\ Idle

CallUpdateExcursions ==
    /\ call.fn = "update_excursions"
    /\ Len(call.args.passed) < MaxUpdates
    /\ \E current_pnl \in ExcursionPnls :
         call' = [call EXCEPT
                    !.args.position_info = update_excursions(@, current_pnl),
                    !.args.passed = Append(@, current_pnl),
                    !.returned = TRUE]
    /\ UNCHANGED <<session_vars, performance>>

\* sessions, and update_excursions on its own
ExcursionSpec == (Init \/ ExcursionInit) /\ [][Next \/ CallUpdateExcursions]_vars

\* trades handed to update_performance_after_session: a win, a loss, one at
\* the breakeven band without excursion data, and a loss just outside the band
LedgerTrades ==
    {[symbol |-> WATCHLIST[1], direction |-> "long", entry_price |-> 100,
      exit_price |-> 103, qty |-> 10, net_pnl_pct |-> 250,
      max_favorable_excursion |-> 300, max_adverse_excursion |-> -100],
     [symbol |-> WATCHLIST[2], direction |-> "short", entry_price |-> 108,
      exit_price |-> 114, qty |-> 5, net_pnl_pct |-> -606,
      max_favorable_excursion |-> 0, max_adverse_excursion |-> -556],
     [symbol |-> WATCHLIST[3], direction |-> "long", entry_price |-> 100,
      exit_price |-> 100, qty |-> 10, net_pnl_pct |-> BREAKEVEN_BAND,
      max_favorable_excursion |-> NoValue, max_adverse_excursion |-> NoValue],
     [symbol |-> WATCHLIST[4], direction |-> "short", entry_price |-> 100,
      exit_price |-> 100, qty |-> 10, net_pnl_pct |-> -(BREAKEVEN_BAND + 1),
      max_favorable_excursion |-> 50, max_adverse_excursion |-> -50]}
TradeLists ==
    {<<>>} \cup {<<t>> : t \in LedgerTrades}
           \cup {<<t, u>> : t \in LedgerTrades, u \in LedgerTrades}
\* session dates, as day numbers
SessionDates == {3, 4}

\* update_performance_after_session(session_date, session_trades), called
\* again and again on the same performance file; args.loaded is the ledger
\* load_performance returned to the latest call, result what it saved
LedgerInit ==
    /\ call = Called("update_performance_after_session",
                     [session_date |-> 0, session_trades |-> <<>>,
                      loaded |-> DEFAULT_PERFORMANCE])
    /\ Idle

CallUpdatePerformance ==
    /\ call.fn = "update_performance_after_session"
    /\ performance.total_sessions < MaxLedgerCalls
    /\ \E session_date \in SessionDates, session_trades \in TradeLists :
         LET perf == update_performance_after_session(performance, session_date,
                                                      session_trades)
         IN  /\ performance' = perf
             /\ call' = [call EXCEPT
                            !.args = [session_date |-> session_date,
                                      session_trades |-> session_trades,
                                      loaded |-> performance],
                            !.returned = TRUE,
                            !.result = perf]
    /\ UNCHANGED session_vars

LedgerSpec == LedgerInit /\ [][CallUpdatePerformance]_vars

\* ------------------------------------------------------------------------
\* A live and a dry-run session on the same inputs
\* ------------------------------------------------------------------------
\* one pass of the `for symbol in symbols_to_check` body, the broker accepting
\* the order: the entry decision is logged in both modes, the position is
\* created in live mode only   (main.py 251-332)
scan_symbol(dry, st, symbol, price, ac) ==
    LET d == ScanDecision(symbol, price, st.l, st.positions, ac)
        l == Seen(st.l, symbol, price, st.positions, ac)
    IN  IF d.kind = "skip"
        THEN [st EXCEPT !.l = l]
        ELSE [st EXCEPT
                !.entries = Append(@, <<symbol, d.direction, d.qty>>),
                !.l = AfterEntry(l, d.direction, d.qty * price),
                !.positions = IF dry THEN @
                              ELSE Append(@, NewPosition(symbol, d.direction, price,
                                                         d.qty, 0, l.window, ac[symbol]))]

RECURSIVE scan_symbols(_, _, _, _, _)
scan_symbols(dry, st, symbols, prices, ac) ==
    IF symbols = <<>> THEN st
    ELSE scan_symbols(dry, scan_symbol(dry, st, Head(symbols), prices[Head(symbols)], ac),
                      Tail(symbols), prices, ac)

\* one iteration of `while not is_past_entry_cutoff()`   (main.py 235-339)
scan(dry, st, prices, ac) ==
    scan_symbols(dry,
                 [st EXCEPT !.l.active_count = Len(st.positions),
                            !.l.slots_remaining = MAX_CONCURRENT_POSITIONS - Len(st.positions)],
                 AnchoredKeys(ac), prices, ac)

\* the exit decisions of phase_exit: one per held symbol   (main.py 484-531)
exit_decisions(st, prices) ==
    [i \in 1..Len(st.positions) |->
        <<st.positions[i].symbol,
          evaluate_morning_exit(st.positions[i].entry_price,
                                prices[st.positions[i].symbol],
                                st.positions[i].direction).action>>]

\* the snapshots a scan may receive
ScanSnapshots == {p \in [Symbols -> {0, 92, 100, 108}] : \A s \in Symbols : p[s] \in MonitorQuotes(s)}

\* both sessions start from the same anchor closes and account values
DryRunInit ==
    /\ \E snapshot \in AnchorSnapshots, equity \in Equities, cash \in Cashes,
          friday \in BOOLEAN :
         LET ac == AnchorCloses(snapshot)
             st == [positions |-> <<>>, entries |-> <<>>, exits |-> <<>>,
                    l |-> [NoLocals EXCEPT !.equity = equity, !.available_cash = cash,
                                           !.friday = friday]]
         IN  call = Called("run_session",
                           [anchor_closes |-> ac, live |-> st, dry |-> st,
                            scans |-> 0, exited |-> FALSE])
    /\ Idle

\* one scan of each session, on the same snapshot
ScanBothModes ==
    /\ call.fn = "run_session"
    /\ ~call.args.exited
    /\ call.args.scans < MaxScans
    /\ \E prices \in ScanSnapshots :
         call' = [call EXCEPT
                    !.args.live = scan(FALSE, @, prices, call.args.anchor_closes),
                    !.args.dry = scan(TRUE, @, prices, call.args.anchor_closes),
                    !.args.scans = @ + 1]
    /\ UNCHANGED <<session_vars, performance>>

\* phase_exit of each session, on the same snapshot
ExitBothModes ==
    /\ call.fn = "run_session"
    /\ ~call.args.exited
    /\ \E prices \in ExitSnapshots :
         call' = [call EXCEPT
                    !.args.live.exits = exit_decisions(call.args.live, prices),
                    !.args.dry.exits = exit_decisions(call.args.dry, prices),
                    !.args.exited = TRUE,
                    !.returned = TRUE]
    /\ UNCHANGED <<session_vars, performance>>

DryRunSpec == DryRunInit /\ [][ScanBothModes \/ ExitBothModes]_vars

\* ------------------------------------------------------------------------
\* _next_weekday_target on its own: one call at a time of the week
\* ------------------------------------------------------------------------
\* times of day at which the function is called, around the times it is asked for
TargetCallTimes == {0, 564, 565, 566, 569, 570, 571, 954, 955, 956, 1200, 1439}
\* the (hour, minute) asked for: 9:25 and 9:30 as in main.py 435, 447, 485,
\* and an afternoon time, 15:55
TargetTimes ==
    {<<EXIT_HOUR, EXIT_MINUTE - 5>>, <<EXIT_HOUR, EXIT_MINUTE>>,
     <<BOT_START_HOUR, BOT_START_MINUTE>>}

TargetInit ==
    /\ \E d \in 0..6, m \in TargetCallTimes, hm \in TargetTimes :
          /\ clock = d * MinPerDay + m
          /\ call = Called("_next_weekday_target", [hour |-> hm[1], minute |-> hm[2]])
    /\ performance = DEFAULT_PERFORMANCE
    /\ pc = "idle"
    /\ dry_run = FALSE
    /\ session_start = 0
    /\ session_active = FALSE
    /\ anchor_closes = [s \in Symbols |-> 0]
    /\ positions = <<>>
    /\ trade_history = <<>>
    /\ saved = Doc(FALSE, [s \in Symbols |-> 0], <<>>, <<>>)
    /\ metrics = <<>>
    /\ orders = [s \in Symbols |-> [entry |-> 0, close |-> 0]]
    /\ last_order = NoOrder
    /\ loc = NoLocals
    /\ events = <<>>
    /\ raised = NotRaised
    /\ perf_calls = 0
    /\ faults = 0
    /\ quotes = 0

CallNextWeekdayTarget ==
    /\ call.fn = "_next_weekday_target"
    /\ Returns(_next_weekday_target(clock, call.args.hour, call.args.minute))

TargetSpec == TargetInit /\ [][CallNextWeekdayTarget]_vars

\* ------------------------------------------------------------------------
\* phase_manage on its own, from the states in which run_session calls it
\* ------------------------------------------------------------------------
\* the Positions a live session holds when MONITOR_AND_ENTER has returned: a
\* long in the first symbol and, unless the session started on a Friday, a
\* short in the second, both entered by the 18:00 scan
EnteredAt(t) ==
    <<NewPosition(WATCHLIST[1], "long", 92, 108, t, "6-8", 100),
      NewPosition(WATCHLIST[2], "short", 108, 370, t, "6-8", 100)>>

RECURSIVE EntriesLogged(_)
EntriesLogged(held) ==
    IF held = <<>> THEN <<>>
    ELSE LET pos == held[Len(held)]
         IN  log_trade(EntriesLogged(SubSeq(held, 1, Len(held) - 1)), pos.entry_time,
                       "ENTRY", pos.symbol, pos.qty, pos.entry_price,
                       IF pos.direction = "short" THEN "fade up"
                       ELSE IF is_friday(pos.entry_time) THEN "Friday dip fade"
                       ELSE "fade down",
                       pos.direction)

\* run_session is about to call phase_manage(state): day d, n Positions held;
\* `early`: nothing was anchored and MONITOR_AND_ENTER returned at 16:05
ManageEntered(d, n, early) ==
    LET held == SubSeq(EnteredAt(d * MinPerDay + 1080), 1, n)
        ac == [s \in Symbols |-> IF early THEN 0 ELSE 100]
        hist == EntriesLogged(held)
    IN  /\ pc = "manage"
        /\ clock = d * MinPerDay + (IF early THEN MONITOR_START_HOUR * 60 + MONITOR_START_MINUTE
                                    ELSE ENTRY_CUTOFF_HOUR * 60 + ENTRY_CUTOFF_MINUTE)
        /\ dry_run = FALSE
        /\ session_start = d * MinPerDay + BOT_START_HOUR * 60 + BOT_START_MINUTE
        /\ session_active = TRUE
        /\ anchor_closes = ac
        /\ positions = held
        /\ trade_history = hist
        /\ saved = Doc(TRUE, ac, held, hist)
        /\ metrics = <<>>
        /\ orders = [s \in Symbols |->
                        [entry |-> IF s \in KeySet(held) THEN 1 ELSE 0, close |-> 0]]
        /\ last_order = IF n = 0 THEN NoOrder
                        ELSE [op |-> IF held[n].direction = "long" THEN "buy_limit_extended"
                                     ELSE "sell_short_limit_extended",
                              symbol |-> held[n].symbol, purpose |-> "entry",
                              result |-> "order"]
        /\ loc = NoLocals
        /\ events = <<Enter("ANCHOR"), Return("ANCHOR"),
                      Enter("MONITOR_AND_ENTER"), Return("MONITOR_AND_ENTER")>>
        /\ raised = NotRaised
        /\ perf_calls = 0
        /\ faults = 0
        /\ quotes = 0
        /\ call = NoCall
        /\ performance = DEFAULT_PERFORMANCE

ManageInit ==
    \E d \in StartDays, n \in 0..2, early \in BOOLEAN :
        /\ early => n = 0
        /\ n = 2 => ~is_friday(d * MinPerDay)
        /\ ManageEntered(d, n, early)

ManageNext ==
    \/ ManageStart
    \/ ManageLoop
    \/ ManageHold
    \/ ManageExit
    \/ ManageEnd

\* the process keeps running: every sleep ends and every call returns or raises
ManageSpec == ManageInit /\ [][ManageNext]_vars /\ WF_vars(ManageNext)

\* ------------------------------------------------------------------------
\* Properties
\* ------------------------------------------------------------------------
EntryRecords(s) ==
    Cardinality({i \in 1..Len(trade_history) :
        trade_history[i].action = "ENTRY" /\ trade_history[i].ticker = s})
ExitRecords(s) ==
    Cardinality({i \in 1..Len(trade_history) :
        trade_history[i].action = "EXIT" /\ trade_history[i].ticker = s})
MetricsFor(s) == Cardinality({i \in 1..Len(metrics) : metrics[i].symbol = s})
Returned(phase) == \E i \in 1..Len(events) : events[i] = Return(phase)

\* the first weekday 9:30 open after the evening of the session that began at t
FirstOpenAfter(t) ==
    SkipWeekend((DayOf(t) + 1) * MinPerDay + EXIT_HOUR * 60 + EXIT_MINUTE)

\* C1: in a live session every morning close-out happens at the first weekday
\* 9:30 open after the entry evening; EXIT never waits for a later day's open.
\* Refuted: after a Monday-to-Thursday evening phase_manage returns at 9:30,
\* and phase_exit then waits for the 9:30 after that.
C1_ClosedAtFirstOpen ==
    ~dry_run =>
        \A i \in 1..Len(trade_history) :
            (trade_history[i].action = "EXIT"
                /\ trade_history[i].reason = "morning closeout")
            => trade_history[i].timestamp = FirstOpenAfter(session_start)

PhaseTrace ==
    <<Enter("ANCHOR"), Return("ANCHOR"),
      Enter("MONITOR_AND_ENTER"), Return("MONITOR_AND_ENTER"),
      Enter("MANAGE"), Return("MANAGE"), Enter("EXIT"), Return("EXIT")>>
\* C2: the phases run in the order ANCHOR, MONITOR_AND_ENTER, MANAGE, EXIT;
\* each starts only after the one before it has returned, none runs twice and
\* none runs after a later one.
C2_PhasesInOrder ==
    /\ Len(events) <= Len(PhaseTrace)
    /\ \A i \in 1..Len(events) : events[i] = PhaseTrace[i]
C2_AllPhasesRan == events = PhaseTrace /\ metrics # <<>> /\ pc = "done"

\* C3: the position map never holds more than MAX_CONCURRENT_POSITIONS
\* positions, in memory or in the saved state; a signal met at the limit
\* leaves no trace that would enter it later.
C3_PositionCap ==
    /\ Len(positions) <= MAX_CONCURRENT_POSITIONS
    /\ Len(saved.positions) <= MAX_CONCURRENT_POSITIONS
C3_RejectedAtCap ==
    /\ pc \in {"scan_sym", "scan_end"}
    /\ ~dry_run /\ ~loc.friday /\ faults = 0
    /\ Len(positions) = MAX_CONCURRENT_POSITIONS
    /\ \E s \in loc.seen_extreme : ~HasKey(positions, s)

\* C4: in one session at most one entry order is accepted, one ENTRY record
\* written and one Position created per symbol.
C4_OneEntryPerSymbol ==
    \A s \in Symbols :
        /\ orders[s].entry <= 1
        /\ EntryRecords(s) <= 1
        /\ Cardinality({i \in 1..Len(positions) : positions[i].symbol = s}) <= 1
C4_HeldSymbolScannedAgain ==
    /\ pc = "scan_sym" /\ loc.i >= 2
    /\ loc.window = "6-8"
    /\ HasKey(positions, loc.symbols[loc.i - 1])
    /\ Item(positions, loc.symbols[loc.i - 1]).trigger_window = "4-6"

\* C5: once EXIT has returned in a live session the position map is empty.
C5_EmptyAfterExit == (~dry_run /\ Returned("EXIT")) => positions = <<>>
C5_ExitClosedPositions ==
    /\ ~dry_run /\ Returned("EXIT")
    /\ \E i \in 1..Len(metrics) : metrics[i].exit_reason = "morning_closeout"

\* C6: a symbol whose Position has been removed has exactly one TradeMetrics
\* entry, and it is there in every state in which the Position is gone.
C6_OneMetricsPerRemoved ==
    \A s \in Symbols :
        /\ MetricsFor(s) <= 1
        /\ (EntryRecords(s) >= 1 /\ ~HasKey(positions, s)) => MetricsFor(s) = 1
C6_PositionRemoved ==
    \E s \in Symbols :
        EntryRecords(s) = 1 /\ ~HasKey(positions, s) /\ MetricsFor(s) = 1

\* C7: a Position and its ENTRY record exist only for an entry order the
\* broker accepted; after a submission that returned nothing or raised, the
\* symbol has neither.
C7_EntryOnlyAfterOrder ==
    \A s \in Symbols :
        /\ EntryRecords(s) = orders[s].entry
        /\ HasKey(positions, s) => orders[s].entry >= 1
        /\ (last_order.purpose = "entry" /\ last_order.symbol = s
                /\ last_order.result # "order")
           => (~HasKey(positions, s) /\ EntryRecords(s) = 0)
C7_EntryOrderFailed ==
    /\ last_order.purpose = "entry" /\ last_order.result = "raise"
    /\ pc = "scan_end"

\* C8: after a close the broker declined (close_position reported failure, or
\* the closing order raised) the Position is still held and the symbol has no
\* EXIT record and no metrics entry.
\* Refuted: phase_exit does not look at what close_position returns.
C8_DeclinedCloseKeepsPosition ==
    \A s \in Symbols :
        (last_order.purpose = "close" /\ last_order.symbol = s
            /\ last_order.result \in {"failed", "raise"})
        => (HasKey(positions, s) /\ ExitRecords(s) = 0 /\ MetricsFor(s) = 0)

\* what C9 asks of one step
C9_Step ==
    /\ (faults' = faults + 1 /\ pc \in {"scan_top", "scan_sym", "manage_top", "cycle_sym"})
       => (pc' \in {"scan_end", "manage_end"} /\ raised' = NotRaised /\ loc'.caught)
    /\ (loc.caught /\ pc = "scan_end" /\ faults' = faults) => pc' = "scan_top"
    /\ (loc.caught /\ pc = "manage_end" /\ faults' = faults) => pc' = "manage_top"
    /\ (pc = "scan_top" /\ pc' # pc /\ pc' \notin {"scan_sym", "scan_end"})
       => is_past_entry_cutoff(clock)
    /\ (pc = "manage_top" /\ pc' # pc /\ pc' \notin {"cycle_sym", "manage_end"})
       => (is_session_over(clock) \/ is_exit_time(clock) \/ ~is_weekday(clock))
\* C9: a call that fails inside the try block of a MONITOR scan or a MANAGE
\* cycle (price fetch, order submission, and what run_manage_cycle calls) is
\* caught in that iteration: the iteration goes to its tail with nothing
\* raised, the loop goes on from there, and the loop is left normally only at
\* its wall-clock boundary.
C9_LoopErrorsCaught == [][C9_Step]_vars
C9_LoopWentOn ==
    /\ loc.caught /\ faults >= 1 /\ raised = NotRaised
    /\ pc \in {"scan_top", "manage_top"}

\* C10: no failure in the body of the MONITOR or MANAGE loop, the save at the
\* end of each iteration included, leaves the loop.
\* Refuted: save_state is called after the try block of the body.
C10_NothingLeavesLoops == raised.at \notin {"MONITOR_AND_ENTER", "MANAGE"}

\* C11: once run_session has entered its try block, however the phases end,
\* it ends with the session state on disk saying session_active = false and
\* with update_performance_after_session called exactly once.
\* Refuted: save_state inside the finally clause can raise; the exception
\* leaves run_session before the performance update.
C11_FinalizedOnce ==
    (pc \in {"done", "crashed"} /\ events # <<>>)
    => (saved.session_active = FALSE /\ perf_calls = 1)

\* C12: in a session whose entry phase runs on a Friday no short Position is
\* ever created, whatever the quotes: no short order is sent, no short ENTRY
\* record is written, and no short Position is held or saved.
C12_NoFridayShort ==
    WeekdayOf(session_start) = 4 =>
        /\ \A i \in 1..Len(positions) : positions[i].direction # "short"
        /\ \A i \in 1..Len(saved.positions) : saved.positions[i].direction # "short"
        /\ \A i \in 1..Len(trade_history) : trade_history[i].direction # "short"
        /\ last_order.op # "sell_short_limit_extended"
C12_FridaySpikeNotFaded ==
    /\ WeekdayOf(session_start) = 4 /\ ~dry_run /\ loc.friday
    /\ pc \in {"scan_sym", "scan_end"}
    /\ WATCHLIST[2] \in loc.seen_extreme /\ ~HasKey(positions, WATCHLIST[2])
    /\ positions # <<>> /\ Len(positions) < MAX_CONCURRENT_POSITIONS
    /\ faults = 0

\* ------------------------------------------------------------------------
\* Properties of the decision functions (under StrategySpec)
\* ------------------------------------------------------------------------
ReturnedFrom(fn) == call.fn = fn /\ call.returned

\* C13: evaluate_entry_signal, for all inputs: a non-positive anchor or
\* current price gives (false, none, "invalid price data"), also at the
\* position limit; otherwise a count at the limit is rejected; otherwise on a
\* non-Friday the direction is short iff the move is >= +7% and long iff it is
\* <= -7%, and on a Friday it is long iff the move is <= -7% and there is no
\* entry for any other move.  Anchor 100 and current 93.0 on a non-Friday give
\* long; anchor 100 and current 107.5 on a Friday give no entry.
C13_EntrySignal ==
    ReturnedFrom("evaluate_entry_signal") =>
        LET a == call.args.anchor_close
            c == call.args.current_price
            n == call.args.active_positions_count
            r == call.result
            invalid == a <= 0 \/ c <= 0
            full == n >= MAX_CONCURRENT_POSITIONS
            up == (c - a) * 100 >= 7 * a
            down == (c - a) * 100 <= -(7 * a)
        IN  /\ invalid => (~r.enter /\ r.direction = "none"
                            /\ r.reason = "invalid price data")
            /\ (~invalid /\ full) => (~r.enter /\ r.direction = "none"
                                        /\ r.reason # "invalid price data")
            /\ (~invalid /\ ~full /\ ~call.args.is_friday) =>
                    /\ r.direction = "short" <=> up
                    /\ r.direction = "long" <=> down
                    /\ r.enter <=> (up \/ down)
            /\ (~invalid /\ ~full /\ call.args.is_friday) =>
                    /\ r.direction = "long" <=> down
                    /\ r.direction # "short"
                    /\ r.enter <=> down
            /\ (a = 1000 /\ c = 930 /\ ~call.args.is_friday /\ n = 0)
                    => (r.enter /\ r.direction = "long")
            /\ (a = 1000 /\ c = 1075 /\ call.args.is_friday /\ n = 0) => ~r.enter
C13_FridaySpikeDeclined ==
    /\ ReturnedFrom("evaluate_entry_signal")
    /\ call.args.anchor_close = 1000 /\ call.args.current_price = 1075
    /\ call.args.is_friday /\ call.args.active_positions_count = 0
    /\ ~call.result.enter /\ call.result.direction = "none"

C15_LongWithinConstraints ==
    (/\ ReturnedFrom("compute_position_size")
     /\ call.args.direction = "long"
     /\ call.args.equity >= 0 /\ call.args.available_cash >= 0
     /\ call.args.slots_remaining > 0)
    => /\ call.result * call.args.entry_price * call.args.slots_remaining
            <= call.args.available_cash
       /\ call.result * call.args.entry_price * HARD_STOP_PCT
            <= call.args.equity * RISK_PER_TRADE_PCT
C15_RiskBound ==
    /\ ReturnedFrom("compute_position_size")
    /\ call.args.direction = "long"
    /\ call.args.equity = 3000 /\ call.args.entry_price = 92
    /\ call.args.available_cash = 500000 /\ call.args.slots_remaining = 1
    /\ call.result = 13

\* C16: compute_position_size returns a whole number >= 0; with the other
\* arguments fixed the result does not fall when equity rises and, over
\* positive prices, does not rise when the price rises.
C16_SizeMonotone ==
    ReturnedFrom("compute_position_size") =>
        LET a == call.args
        IN  /\ call.result \in Nat
            /\ \A e \in SizeEquities :
                 e >= a.equity =>
                    compute_position_size(e, a.entry_price, a.direction,
                                          a.available_cash, a.slots_remaining)
                        >= call.result
            /\ \A p \in SizePrices :
                 (a.entry_price > 0 /\ p >= a.entry_price) =>
                    compute_position_size(a.equity, p, a.direction,
                                          a.available_cash, a.slots_remaining)
                        <= call.result
C16_SizeVaries ==
    /\ ReturnedFrom("compute_position_size")
    /\ call.args.equity = 50000 /\ call.args.entry_price = 50
    /\ call.args.direction = "short"
    /\ call.result = 400
    /\ compute_position_size(100000, 50, "short", call.args.available_cash,
                             call.args.slots_remaining) = 800
    /\ compute_position_size(50000, 92, "short", call.args.available_cash,
                             call.args.slots_remaining) = 217

\* C17: compute_position_size returns 0 whenever equity, price or cash is not
\* positive or no slot remains, for a long and for a short.
\* Refuted: the cash is looked at only for a long.
C17_ZeroOnBadInput ==
    (/\ ReturnedFrom("compute_position_size")
     /\ \/ call.args.equity <= 0
        \/ call.args.entry_price <= 0
        \/ call.args.available_cash <= 0
        \/ call.args.slots_remaining <= 0)
    => call.result = 0

\* direction-normalized P&L of the call's arguments, as a numerator over the
\* entry price
CallPnl ==
    IF call.args.direction = "long"
    THEN call.args.current_price - call.args.entry_price
    ELSE call.args.entry_price - call.args.current_price

\* C18: evaluate_overnight_management gives the hard stop priority: whenever
\* the P&L of a position (entry price > 0) is <= -5% it returns exit with the
\* stop's reason, whatever spread and volume say.  A long entered at 50 and
\* quoted 47.4 is stopped out.
C18_StopFirst ==
    ReturnedFrom("evaluate_overnight_management") =>
        /\ (call.args.entry_price > 0 /\ CallPnl * 100 <= -(5 * call.args.entry_price))
                => (call.result.hit /\ call.result.reason = "HARD STOP")
        /\ (call.args.entry_price = 500 /\ call.args.current_price = 474
                /\ call.args.direction = "long")
                => (call.result.hit /\ call.result.reason = "HARD STOP")
C18_StoppedWithGoodLiquidity ==
    /\ ReturnedFrom("evaluate_overnight_management")
    /\ call.args.entry_price = 500 /\ call.args.current_price = 474
    /\ call.args.direction = "long"
    /\ call.args.spread_pct = 0 /\ call.args.recent_volume = 200
    /\ call.result.hit /\ call.result.reason = "HARD STOP"

\* what C19 lets the ceiling exit depend on
CeilingConditions ==
    /\ CallPnl * 1000 >= 25 * call.args.entry_price
    /\ call.args.spread_pct = -1 \/ call.args.spread_pct <= 40
    /\ call.args.recent_volume = -1 \/ call.args.recent_volume >= 100
\* C19: for a position (entry price > 0) the profit-ceiling exit fires iff
\* P&L >= +2.5% and (no spread is supplied or spread <= 0.4%) and (no volume
\* is supplied or volume >= 100); at the ceiling with a failing spread or
\* volume the position is held (long, entry 50, current 51.3, spread 0.6%),
\* and without liquidity data the exit fires on P&L alone.
C19_CeilingExit ==
    /\ (ReturnedFrom("check_profit_ceiling") /\ call.args.entry_price > 0)
            => (call.result.hit <=> CeilingConditions)
    /\ (ReturnedFrom("evaluate_overnight_management") /\ call.args.entry_price > 0)
            => ((call.result.hit /\ call.result.reason = "PROFIT CEILING")
                    <=> CeilingConditions)
    /\ (/\ call.fn \in {"check_profit_ceiling", "evaluate_overnight_management"}
        /\ call.returned
        /\ call.args.entry_price = 500 /\ call.args.current_price = 513
        /\ call.args.direction = "long" /\ call.args.spread_pct = 60)
            => ~call.result.hit
C19_HeldForSpread ==
    /\ ReturnedFrom("evaluate_overnight_management")
    /\ call.args.entry_price = 500 /\ call.args.current_price = 513
    /\ call.args.direction = "long"
    /\ call.args.spread_pct = 60 /\ call.args.recent_volume = 200
    /\ ~call.result.hit /\ call.result.reason = "TP reached but spread"

\* C20: evaluate_morning_exit returns the action "close" for every entry
\* price, current price and direction.
\* Refuted: an entry price <= 0 returns "none".
C20_AlwaysClose ==
    ReturnedFrom("evaluate_morning_exit") => call.result.action = "close"

\* ------------------------------------------------------------------------
\* Properties of the state_manager functions and of dry-run sessions
\* ------------------------------------------------------------------------
\* what C21 asks of one step
C21_Step ==
    /\ (call.fn = "update_excursions" /\ call'.fn = "update_excursions") =>
            /\ call'.args.position_info.max_favorable_pnl
                    >= call.args.position_info.max_favorable_pnl
            /\ call'.args.position_info.max_adverse_pnl
                    <= call.args.position_info.max_adverse_pnl
    /\ \A s \in Symbols :
         (HasKey(positions, s) /\ HasKey(positions', s)) =>
            LET before == Item(positions, s)
                after == Item(positions', s)
            IN  /\ after.max_favorable_pnl >= before.max_favorable_pnl
                /\ after.max_adverse_pnl <= before.max_adverse_pnl
                /\ (after.max_favorable_pnl # before.max_favorable_pnl
                        \/ after.max_adverse_pnl # before.max_adverse_pnl)
                   => (pc = "cycle_sym" /\ loc.symbols[loc.i] = s)
\* C21: over any sequence of update_excursions calls on one Position, with
\* arbitrary P&L values, max_favorable_pnl never decreases and
\* max_adverse_pnl never increases; in a session the two fields of a held
\* Position change only in the management pass over its symbol.
C21_ExcursionsMonotone == [][C21_Step]_vars
C21_ExcursionsRecorded ==
    /\ call.fn = "update_excursions"
    /\ call.args.passed = <<8, -8, 3>>
    /\ call.args.position_info.max_favorable_pnl = 8
    /\ call.args.position_info.max_adverse_pnl = -8

UpdatedLedger == call.fn = "update_performance_after_session" /\ call.returned

\* the fields C22 lists: trade counts, win/loss/breakeven counts, P&L totals,
\* best and worst trade, averages and streaks
TradeTotals(perf) ==
    <<perf.total_trades, perf.wins, perf.losses, perf.breakeven,
      perf.long_trades, perf.long_wins, perf.short_trades, perf.short_wins,
      perf.total_net_pnl_pct, perf.total_net_pnl_dollars,
      perf.best_trade_pnl_pct, perf.best_trade_symbol,
      perf.worst_trade_pnl_pct, perf.worst_trade_symbol,
      perf.avg_win_pct, perf.avg_loss_pct, perf.avg_mfe_pct, perf.avg_mae_pct,
      perf.current_streak, perf.best_streak, perf.worst_streak,
      perf.win_sum, perf.loss_sum>>

\* C22 as stated: a call with an empty trade list leaves trade counts,
\* win/loss/breakeven counts, P&L totals, best/worst trade, averages and
\* streaks unchanged, and sessions_no_trades is the only counter it increments.
\* Refuted in its last part: total_sessions is incremented as well.
C22_OnlyNoTradesCounted ==
    (UpdatedLedger /\ call.args.session_trades = <<>>) =>
        /\ TradeTotals(call.result) = TradeTotals(call.args.loaded)
        /\ call.result.sessions_no_trades = call.args.loaded.sessions_no_trades + 1
        /\ call.result.sessions_with_trades = call.args.loaded.sessions_with_trades
        /\ call.result.total_sessions = call.args.loaded.total_sessions

\* C22, amended: a call with an empty trade list leaves trade counts,
\* win/loss/breakeven counts, P&L totals, best/worst trade, averages and
\* streaks unchanged; the only counters it increments are sessions_no_trades
\* and total_sessions, each by one, and it logs one session without trades.
C22_EmptySessionCounted ==
    (UpdatedLedger /\ call.args.session_trades = <<>>) =>
        /\ TradeTotals(call.result) = TradeTotals(call.args.loaded)
        /\ call.result.sessions_no_trades = call.args.loaded.sessions_no_trades + 1
        /\ call.result.sessions_with_trades = call.args.loaded.sessions_with_trades
        /\ call.result.total_sessions = call.args.loaded.total_sessions + 1
        /\ Len(call.result.session_log) = Len(call.args.loaded.session_log) + 1
        /\ call.result.session_log[Len(call.result.session_log)].trades = 0
        /\ performance = call.result
C22_EmptyAfterTrades ==
    /\ UpdatedLedger
    /\ call.args.session_trades = <<>>
    /\ call.args.loaded.total_trades = 2
    /\ call.args.loaded.current_streak = 2
    /\ call.result.current_streak = 2

\* C23: update_performance_after_session is not idempotent: a second call
\* with the same date and the same non-empty trade list counts every trade
\* again: total_trades and the win, loss and breakeven counters grow by twice
\* what one call adds, total_sessions by 2.
C23_CountsTwice ==
    (UpdatedLedger /\ call.args.session_trades # <<>>) =>
        LET before == call.args.loaded
            once == call.result
            twice == update_performance_after_session(once, call.args.session_date,
                                                      call.args.session_trades)
        IN  /\ once.total_trades = before.total_trades + Len(call.args.session_trades)
            /\ twice.total_trades
                    = before.total_trades + 2 * Len(call.args.session_trades)
            /\ twice.wins - before.wins = 2 * (once.wins - before.wins)
            /\ twice.losses - before.losses = 2 * (once.losses - before.losses)
            /\ twice.breakeven - before.breakeven
                    = 2 * (once.breakeven - before.breakeven)
            /\ twice.total_sessions = before.total_sessions + 2
            /\ twice # once
C23_SameSessionTwice ==
    /\ UpdatedLedger
    /\ Len(call.args.session_trades) = 2
    /\ performance.total_sessions = 2
    /\ performance.session_log[1].trades = 2
    /\ performance.session_log[1].date = performance.session_log[2].date
    /\ performance.session_log[1].symbols = performance.session_log[2].symbols
    /\ performance.total_trades = 4
    /\ performance.wins = 2 /\ performance.losses = 2

\* the rule C24 states, for one trade
SignedStreak(previous, net_pnl) ==
    IF net_pnl > 1 THEN (IF previous > 0 THEN previous + 1 ELSE 1)
    ELSE IF net_pnl < -1 THEN (IF previous < 0 THEN previous - 1 ELSE -1)
    ELSE previous
RECURSIVE StreakOver(_, _)
StreakOver(previous, trades) ==
    IF trades = <<>> THEN previous
    ELSE StreakOver(SignedStreak(previous, Head(trades).net_pnl_pct), Tail(trades))
\* C24: over any sequence of trades the signed streak counter follows the
\* rule: a win makes it previous + 1 when previous is positive and +1
\* otherwise, a loss previous - 1 when previous is negative and -1 otherwise,
\* and a breakeven trade (|net P&L| <= 0.0001) leaves it as it is.
C24_StreakRule ==
    UpdatedLedger =>
        call.result.current_streak
            = StreakOver(call.args.loaded.current_streak, call.args.session_trades)
C24_StreakFlipped ==
    /\ UpdatedLedger
    /\ call.args.loaded.current_streak = 2
    /\ Len(call.args.session_trades) = 2
    /\ call.args.session_trades[1].net_pnl_pct = BREAKEVEN_BAND
    /\ call.args.session_trades[2].net_pnl_pct < -BREAKEVEN_BAND
    /\ call.result.current_streak = -1


\* C25: every iteration of the MONITOR scan loop ends by persisting the
\* session state: the body of a scan, whether it entered a trade, passed over
\* every symbol or had an exception caught, leads only to the tail of the
\* iteration; the next iteration starts only from that tail; and the tail
\* writes the session state as it stands to disk (the only other way out of
\* the tail is save_state itself raising).
InScanBody == pc = "scan_top" \/ pc = "scan_sym"

C25_Step ==
    /\ (InScanBody /\ pc' # pc) =>
          \/ pc' = "scan_sym"
          \/ pc' = "scan_end"
          \/ pc = "scan_top" /\ is_past_entry_cutoff(clock) /\ pc' = AfterPhase("MONITOR_AND_ENTER")
    /\ (pc # "scan_top" /\ pc' = "scan_top") => pc \in {"monitor", "scan_end"}
    /\ pc = "scan_end" =>
          \/ /\ pc' = "scan_top"
             /\ saved' = Doc(session_active, anchor_closes, positions, trade_history)
             /\ positions' = positions /\ trade_history' = trade_history
          \/ /\ raised'.kind = "error"
             /\ faults' = faults + 1

C25_ScanEndsBySaving == [][C25_Step]_vars

\* a scan whose exception was caught has ended, after an earlier scan entered
\* a trade, and the file on disk holds the position
C25_SavedAfterCaughtError ==
    /\ pc = "scan_top"
    /\ loc.caught
    /\ Len(positions) > 0
    /\ saved = Doc(session_active, anchor_closes, positions, trade_history)

\* C26: a dry-run session takes the same decisions as a live session: on the
\* same snapshots and account values, with every order accepted, the entry
\* decisions (symbol, direction, quantity) and the exit decisions of the two
\* sessions are the same sequences.
C26_DryRunDecidesAsLive ==
    call.fn = "run_session" =>
        /\ call.args.dry.entries = call.args.live.entries
        /\ call.args.dry.exits = call.args.live.exits

\* C27: in a dry-run session no step of any phase calls a broker order
\* primitive (buy, sell, short, close_position), accepted or not, and none
\* writes a TradeMetrics entry or a TradeRecord.
C27_Step ==
    dry_run =>
        /\ last_order' = last_order
        /\ orders' = orders
        /\ metrics' = metrics
        /\ trade_history' = trade_history

C27_DryRunSendsNothing == [][C27_Step]_vars

\* a dry-run scan has decided an entry ("Would buy ..."): no order call, no
\* record
C27_DryEntryDecided ==
    /\ dry_run
    /\ pc = "scan_end"
    /\ loc.active_count > Len(positions)
    /\ last_order = NoOrder
    /\ \A s \in Symbols : orders[s].entry = 0 /\ orders[s].close = 0
    /\ metrics = <<>>
    /\ trade_history = <<>>

\* C28: the reference set (anchor_closes) holds exactly the watchlist symbols
\* whose price in the anchor snapshot was present and positive, at that
\* price; once the ANCHOR phase has run it is never changed; and every
\* Position is for a symbol of the reference set.
C28_Step ==
    /\ (pc = "anchor" /\ anchor_closes' # anchor_closes) =>
          \E prices \in AnchorSnapshots :
             \A s \in Symbols :
                anchor_closes'[s] = IF prices[s] > 0 THEN prices[s] ELSE 0
    /\ pc \notin {"start", "anchor"} => anchor_closes' = anchor_closes
    /\ \A i \in 1..Len(positions') : anchor_closes'[positions'[i].symbol] > 0

C28_ReferenceSetFixed == [][C28_Step]_vars

\* a Position is held overnight while the first symbol of the watchlist had
\* no usable anchor price
C28_EnteredWithPartialAnchors ==
    /\ pc = "manage_top"
    /\ Len(positions) > 0
    /\ anchor_closes[WATCHLIST[1]] = 0
    /\ \A s \in Symbols \ {WATCHLIST[1]} : anchor_closes[s] > 0

\* C29: no Position is created at or after the entry cutoff (8:00 PM): the
\* entry_time of every Position and the time of every ENTRY record lie
\* strictly before the cutoff of their day.
C29_NoEntryAtCutoff ==
    /\ \A i \in 1..Len(positions) : ~is_past_entry_cutoff(positions[i].entry_time)
    /\ \A i \in 1..Len(trade_history) :
          trade_history[i].action = "ENTRY" =>
              ~is_past_entry_cutoff(trade_history[i].timestamp)

\* C30: in the EXIT phase of a live session a held symbol the final snapshot
\* has no price for is still closed and removed: close_position is called for
\* it, its metrics and its EXIT record are written with an exit price of
\* zero, the Position is deleted, and the loop goes on to the next held
\* symbol (the only other outcome is save_trade_metrics raising).
C30_Step ==
    (pc = "exit_sym" /\ ~dry_run /\ loc.prices[loc.symbols[loc.i]] = 0) =>
        LET symbol == loc.symbols[loc.i]
        IN  \/ /\ last_order'.op = "close_position"
               /\ last_order'.symbol = symbol
               /\ positions' = DelKey(positions, symbol)
               /\ Len(metrics') = Len(metrics) + 1
               /\ metrics'[Len(metrics')].symbol = symbol
               /\ metrics'[Len(metrics')].exit_price = 0
               /\ metrics'[Len(metrics')].exit_reason = "morning_closeout"
               /\ Len(trade_history') = Len(trade_history) + 1
               /\ trade_history'[Len(trade_history')].action = "EXIT"
               /\ trade_history'[Len(trade_history')].ticker = symbol
               /\ trade_history'[Len(trade_history')].price = 0
               /\ pc' = IF loc.i >= Len(loc.symbols) THEN "exit_end" ELSE "exit_sym"
               /\ loc'.i = loc.i + 1
            \/ /\ raised'.kind = "error"
               /\ faults' = faults + 1
               /\ metrics' = metrics

C30_ClosedWithoutPrice == [][C30_Step]_vars

\* phase_exit has closed two Positions: the first without a price, at zero,
\* the second at the price of the snapshot
C30_OthersClosedToo ==
    /\ pc = "exit_end"
    /\ positions = <<>>
    /\ Len(metrics) = 2
    /\ metrics[1].exit_reason = "morning_closeout" /\ metrics[1].exit_price = 0
    /\ metrics[2].exit_reason = "morning_closeout" /\ metrics[2].exit_price > 0
    /\ orders[metrics[1].symbol].close = 1
    /\ orders[metrics[2].symbol].close = 1

\* C31: when MANAGE starts on a Friday at or after 8:00 PM, or on a weekend
\* day, it runs no management cycle: it returns at once from a sleep that
\* ends 5 minutes before the 9:30 open of the first weekday after that day,
\* with the position map, the metrics and the trade history unchanged and no
\* order sent.
C31_Step ==
    (pc = "manage" /\ (~is_weekday(clock) \/ (is_friday(clock) /\ time_reached(clock, 20, 0)))) =>
        /\ pc' = "exit"
        /\ events' = events \o <<Enter("MANAGE"), Return("MANAGE")>>
        /\ positions' = positions
        /\ metrics' = metrics
        /\ trade_history' = trade_history
        /\ orders' = orders
        /\ clock' % MinPerDay = EXIT_HOUR * 60 + EXIT_MINUTE - 5
        /\ is_weekday(clock')
        /\ clock' > clock
        /\ \A d \in DayOf(clock)..(DayOf(clock') - 1) :
              d % 7 >= 5 \/ (d = DayOf(clock) /\ clock >= AtTime(clock, EXIT_HOUR, EXIT_MINUTE - 5))

C31_WeekendSleptThrough == [][C31_Step]_vars

\* a Position entered on a Friday has been carried to Monday 9:25 without a
\* management cycle
C31_HeldOverWeekend ==
    /\ pc = "exit"
    /\ Len(positions) > 0
    /\ WeekdayOf(positions[1].entry_time) = 4
    /\ WeekdayOf(clock) = 0
    /\ clock % MinPerDay = EXIT_HOUR * 60 + EXIT_MINUTE - 5
    /\ metrics = <<>>

\* C32: in a live session, a management cycle that reads for a held Position
\* a price whose direction-normalized P&L is at or below -HARD_STOP_PCT
\* submits the closing order in that same pass and, when the broker and the
\* metrics file accept, appends one TradeMetrics entry and one EXIT record
\* and removes the Position; the Position stays open only when one of those
\* calls failed.
C32_Step ==
    (pc = "cycle_sym" /\ ~dry_run /\ Len(loc'.prices) = Len(loc.prices) + 1) =>
        LET symbol == loc.symbols[loc.i]
            old == Item(positions, symbol)
            price == loc'.prices[Len(loc'.prices)]
            stopped == /\ price > 0
                       /\ PnlNum(old.entry_price, price, old.direction) * BP
                             <= -HARD_STOP_PCT * old.entry_price
        IN  stopped =>
              /\ last_order'.purpose = "close"
              /\ last_order'.symbol = symbol
              /\ last_order'.op = IF old.direction = "long" THEN "sell_limit_extended"
                                  ELSE "buy_limit_extended"
              /\ IF faults' = faults
                 THEN /\ ~HasKey(positions', symbol)
                      /\ Len(positions') = Len(positions) - 1
                      /\ orders'[symbol].close = orders[symbol].close + 1
                      /\ Len(metrics') = Len(metrics) + 1
                      /\ metrics'[Len(metrics')].symbol = symbol
                      /\ metrics'[Len(metrics')].exit_price = price
                      /\ metrics'[Len(metrics')].exit_reason = "HARD STOP"
                      /\ Len(trade_history') = Len(trade_history) + 1
                      /\ trade_history'[Len(trade_history')].action = "EXIT"
                      /\ trade_history'[Len(trade_history')].ticker = symbol
                 ELSE /\ faults' = faults + 1
                      /\ HasKey(positions', symbol)

C32_StoppedInSameCycle == [][C32_Step]_vars

\* a cycle has stopped out a short Position and goes on
C32_StoppedOut ==
    /\ ~dry_run
    /\ pc \in {"cycle_sym", "manage_end"}
    /\ Len(metrics) = 1
    /\ metrics[1].exit_reason = "HARD STOP"
    /\ metrics[1].direction = "short"
    /\ ~HasKey(positions, metrics[1].symbol)
    /\ faults = 0

\* C33: the performance update that ends a session receives every
\* TradeMetrics entry the session produced, those of the forced morning close
\* on the day after the session started included: once the update has run,
\* the ledger counts as many trades as the session wrote metrics entries.
C33_AllSessionTradesCounted ==
    pc = "done" =>
        /\ performance.total_trades = Len(metrics)
        /\ performance.session_log[1].trades = Len(metrics)

\* the values current_streak takes after each trade of the latest call
StreaksDuring ==
    {StreakOver(call.args.loaded.current_streak, SubSeq(call.args.session_trades, 1, k)) :
        k \in 1..Len(call.args.session_trades)}

\* C38: best_streak is the largest value current_streak has taken after any
\* single trade and worst_streak the smallest, values reached in the middle
\* of a session's trade list included: after a call, best_streak is at least
\* the best_streak loaded and every streak value of the call, and is one of
\* them; likewise worst_streak.
C38_StreakExtremesTracked ==
    UpdatedLedger =>
        LET best == {call.args.loaded.best_streak} \cup StreaksDuring
            worst == {call.args.loaded.worst_streak} \cup StreaksDuring
        IN  /\ performance.best_streak \in best
            /\ \A v \in best : v <= performance.best_streak
            /\ performance.worst_streak \in worst
            /\ \A v \in worst : v >= performance.worst_streak

\* C39: the ledger counters partition: wins + losses + breakeven =
\* total_trades, long_trades + short_trades = total_trades, long_wins +
\* short_wins = wins, sessions_with_trades + sessions_no_trades =
\* total_sessions.
C39_CountersPartition ==
    /\ performance.wins + performance.losses + performance.breakeven
          = performance.total_trades
    /\ performance.long_trades + performance.short_trades = performance.total_trades
    /\ performance.long_wins + performance.short_wins = performance.wins
    /\ performance.sessions_with_trades + performance.sessions_no_trades
          = performance.total_sessions

\* two sessions have been recorded, with a win, a loss and a breakeven trade,
\* long and short
C39_MixedLedger ==
    /\ UpdatedLedger
    /\ performance.total_sessions = 2
    /\ performance.wins = 1 /\ performance.losses = 1 /\ performance.breakeven = 1
    /\ performance.long_trades = 2 /\ performance.short_trades = 1
    /\ performance.long_wins = 1 /\ performance.short_wins = 0

\* quantity times price, summed over the long ENTRY records
RECURSIVE LongNotional(_)
LongNotional(hist) ==
    IF hist = <<>> THEN 0
    ELSE (IF Head(hist).action = "ENTRY" /\ Head(hist).direction = "long"
          THEN Head(hist).qty * Head(hist).price ELSE 0)
         + LongNotional(Tail(hist))

\* C34: within a MONITOR phase of a live session the locally tracked capacity
\* is updated after each successful entry (one slot less, available cash
\* less quantity times price for a long, never below 0), and a long entry is
\* sized against the capacity left by the entries before it; so the total
\* notional of the session's long entries never exceeds the cash fetched at
\* the start of the phase.
C34_Step ==
    /\ (~dry_run /\ pc = "scan_sym" /\ Len(positions') = Len(positions) + 1) =>
          LET new == positions'[Len(positions')]
              notional == new.qty * new.entry_price
          IN  /\ loc'.slots_remaining = loc.slots_remaining - 1
              /\ loc'.active_count = loc.active_count + 1
              /\ loc'.available_cash =
                    IF new.direction = "long"
                    THEN Max(loc.available_cash - notional, 0)
                    ELSE loc.available_cash
              /\ loc'.available_cash >= 0
              /\ new.direction = "long" =>
                    notional * loc.slots_remaining <= loc.available_cash
    /\ ~dry_run' => \A cash \in Cashes : LongNotional(trade_history') <= cash
    /\ (~dry_run' /\ pc' \in {"scan_top", "scan_sym", "scan_end"}) =>
          \E cash \in Cashes : loc'.available_cash + LongNotional(trade_history') = cash

C34_LongsWithinCash == [][C34_Step]_vars

\* one scan has entered two long Positions, the second sized against what
\* the first left
C34_TwoLongsInOneScan ==
    /\ ~dry_run
    /\ pc \in {"scan_sym", "scan_end"}
    /\ Len(positions) = 2
    /\ positions[1].direction = "long" /\ positions[2].direction = "long"
    /\ positions[1].entry_time = positions[2].entry_time
    /\ positions[2].qty > positions[1].qty
    /\ loc.slots_remaining = MAX_CONCURRENT_POSITIONS - 2

\* C35: at most one closing order reaches the broker for any Position over
\* its lifetime, whatever the broker and the metrics file do: a symbol is
\* entered at most once in a session, so the broker never accepts a second
\* closing order for a symbol.
C35_OneClosingOrder ==
    \A s \in Symbols : orders[s].close <= 1

\* the symbols whose latest record in the trade log is an ENTRY
OpenInLog(hist) ==
    {s \in Symbols :
        \E i \in 1..Len(hist) :
            /\ hist[i].ticker = s
            /\ hist[i].action = "ENTRY"
            /\ \A j \in (i + 1)..Len(hist) : hist[j].ticker # s}

\* C36: in a live session the trade log and the position map stay
\* consistent: the symbols with an open Position are exactly the symbols
\* that have an ENTRY record of the session and no later EXIT record.
C36_LogMatchesPositions ==
    ~dry_run => KeySet(positions) = OpenInLog(trade_history)

\* one Position has been closed overnight and another is still held
C36_OneClosedOneHeld ==
    /\ ~dry_run
    /\ Len(positions) = 1
    /\ Len(trade_history) = 3
    /\ trade_history[3].action = "EXIT"
    /\ trade_history[3].ticker # positions[1].symbol
    /\ pc \in {"cycle_sym", "manage_end", "manage_top"}

\* where run_session stands while phase_manage runs
InManage == pc \in {"manage", "manage_top", "cycle_sym", "manage_end"}

\* C37: phase_manage always terminates: in a session started Monday to
\* Thursday it returns on the next morning no later than the end of the exit
\* window (9:40), and in a session that reaches a weekend it returns at 9:25
\* of the first weekday after it.
C37_Step ==
    (InManage /\ pc' = "exit") =>
        IF WeekdayOf(session_start) <= 3
        THEN /\ DayOf(clock') = DayOf(session_start) + 1
             /\ clock' % MinPerDay <= EXIT_HOUR * 60 + EXIT_MINUTE + EXIT_WINDOW_MINUTES
        ELSE /\ is_weekday(clock')
             /\ clock' % MinPerDay = EXIT_HOUR * 60 + EXIT_MINUTE - 5
             /\ DayOf(clock') > DayOf(session_start)
             /\ \A d \in (DayOf(session_start) + 1)..(DayOf(clock') - 1) : d % 7 >= 5

C40_NextWeekdayTarget ==
    ReturnedFrom("_next_weekday_target") =>
        LET at == call.args.hour * 60 + call.args.minute
            ahead == clock % MinPerDay < at
            r == call.result
        IN  /\ (is_weekday(clock) /\ ahead) => r = DayOf(clock) * MinPerDay + at
            /\ ~(is_weekday(clock) /\ ahead) =>
                    /\ r % MinPerDay = at
                    /\ DayOf(r) > DayOf(clock)
                    /\ DayOf(r) % 7 < 5
                    /\ \A d \in (DayOf(clock) + 1)..(DayOf(r) - 1) : d % 7 >= 5
            /\ DayOf(r) % 7 \notin {5, 6}
            /\ r >= clock
\* called on a Friday after 9:25 for 9:25: the answer is Monday 9:25
C40_FridayToMonday ==
    /\ ReturnedFrom("_next_weekday_target")
    /\ WeekdayOf(clock) = 4
    /\ clock % MinPerDay > call.args.hour * 60 + call.args.minute
    /\ call.result = 7 * MinPerDay + call.args.hour * 60 + call.args.minute

=============================================================================
